---- MODULE Spec2Model ----
(***************************************************************************)
(* A model of the WhatsApp conversation exporter (package                  *)
(* whatsapp_exporter, module core.py, with participants.py and the two     *)
(* legacy single-file exporters): the blob scanners, the reaction decoder, *)
(* the citation resolver, the initials resolver and the message assembler. *)
(*                                                                         *)
(* Conventions.  Text is a sequence of Unicode code points, a blob is a    *)
(* sequence of bytes 0..255, positions are 0-based as in the Python code   *)
(* (At, Slice).  Python's None is the empty sequence where the value is an *)
(* optional text (both are falsy in the code) and 0 where it is a row id   *)
(* (ids start at 1; `if id:` treats 0 and NULL alike).                     *)
(***************************************************************************)
EXTENDS Integers, Sequences, FiniteSets, TLC

VARIABLES
    scanBlob,   \* the blob a scanning loop runs over
    scanLoop,   \* which loop: "tag1", "fallback", "fragments", "varint"
    scanPos,    \* the loop's position variable (i, or pos in _decode_varint)
    scanAcc,    \* the loop's other locals
    scanPc,     \* "loop", "returned" (normal exit) or "raised" (exception escaped)
    scanRet,    \* what the scan handed back to its caller
    scanSteps   \* how many times the loop body has run

scanVars == <<scanBlob, scanLoop, scanPos, scanAcc, scanPc, scanRet, scanSteps>>

\* _get_conversation_messages: the ZWAMESSAGE table, the arguments limit
\* (0 is None) and recent, the position in the method, the fetched rows (as
\* Z_PKs) and the next one to process, self.messages, the returned list, the
\* row whose processing raised (0 for none), and for each message the
\* position of the original the second pass selected for it (0 for none)
VARIABLES db, limit, recent, pc, rows, nextRow, messages, returned, raisedRow, selected

asmVars == <<db, limit, recent, pc, rows, nextRow, messages, returned, raisedRow, selected>>

\* get_group_unique_initials: member_data (the name of each member, members
\* numbered 1..n), the conflicts dict of the first pass, the returned
\* initials_map, and the position in the method
VARIABLES member_data, conflicts, initials_map, iniPc

iniVars == <<member_data, conflicts, initials_map, iniPc>>

\* one export run of a group conversation: the ParticipantManager's
\* _group_initials_cache (a dict from group to initials map), how many times
\* get_group_unique_initials has run for each group, the last operation with
\* its arguments and result, and the number of operations done
VARIABLES _group_initials_cache, computations, grpCall, grpOps

grpVars == <<_group_initials_cache, computations, grpCall, grpOps>>

\* MoodAnalyzer.analyze_mood_timeline: the message list the caller holds,
\* the list as it was passed to the first run, and what each run returned
VARIABLES moodMessages, moodArg, moodRuns

moodVars == <<moodMessages, moodArg, moodRuns>>

\* ConversationFormatter: whether the messages have been formatted, and
\* the output lines from the first date separator to the statistics
VARIABLES fmtPc, output

fmtVars == <<fmtPc, output>>

\* Constructing an exporter: the arguments and the files that exist, and
\* the exporter (position, db_path, the exception raised, whether a
\* connection is open, how many queries have run, how often the candidate
\* locations were searched)
VARIABLES dbEnv, dbMgr

dbVars == <<dbEnv, dbMgr>>

vars == <<scanVars, asmVars, iniVars, grpVars, moodVars, fmtVars, dbVars>>

\* what each machine leaves alone
nonScanVars == <<asmVars, iniVars, grpVars, moodVars, fmtVars, dbVars>>
nonAsmVars == <<scanVars, iniVars, grpVars, moodVars, fmtVars, dbVars>>
nonIniVars == <<scanVars, asmVars, grpVars, moodVars, fmtVars, dbVars>>
nonGrpVars == <<scanVars, asmVars, iniVars, moodVars, fmtVars, dbVars>>
nonMoodVars == <<scanVars, asmVars, iniVars, grpVars, fmtVars, dbVars>>
nonFmtVars == <<scanVars, asmVars, iniVars, grpVars, moodVars, dbVars>>
nonDbVars == <<scanVars, asmVars, iniVars, grpVars, moodVars, fmtVars>>

(***************************************************************************)
(* Python primitives                                                       *)
(***************************************************************************)
Min(a, b) == IF a <= b THEN a ELSE b
Max(a, b) == IF a >= b THEN a ELSE b

\* blob[i] (0-based); callers guard the index as the code does
At(s, i) == s[i + 1]

\* s[a:b] for 0 <= a: out-of-range ends are clipped, never an error
Slice(s, a, b) ==
    IF a >= Min(b, Len(s)) THEN <<>> ELSE SubSeq(s, a + 1, Min(b, Len(s)))

\* sub in s  (substring test)
Contains(s, sub) ==
    \E k \in 0..(Len(s) - Len(sub)) : Slice(s, k, k + Len(sub)) = sub

\* printable ASCII for writing texts as literals: code points 32..95 and
\* 97..126 (a string literal cannot hold the backtick, code point 96)
AsciiLow == " !\"#$%&'()*+,-./0123456789:;<=>?@ABCDEFGHIJKLMNOPQRSTUVWXYZ[\\]^_"
AsciiHigh == "abcdefghijklmnopqrstuvwxyz{|}~"

Ord(c) ==
    IF \E k \in 1..Len(AsciiLow) : SubSeq(AsciiLow, k, k) = c
    THEN 31 + (CHOOSE k \in 1..Len(AsciiLow) : SubSeq(AsciiLow, k, k) = c)
    ELSE 96 + (CHOOSE k \in 1..Len(AsciiHigh) : SubSeq(AsciiHigh, k, k) = c)

\* the code points of a literal
S(str) == [k \in 1..Len(str) |-> Ord(SubSeq(str, k, k))]

IsDigit(c) == c >= 48 /\ c <= 57
IsUpper(c) == c >= 65 /\ c <= 90
IsLower(c) == c >= 97 /\ c <= 122
IsAlnum(c) == IsDigit(c) \/ IsUpper(c) \/ IsLower(c)
IsQuoteSep(c) == c = 39 \/ c = 96
IsBrace(c) == c = 123 \/ c = 125
IsControl(c) == c <= 31

\* str.isspace() of one character
IsSpace(c) ==
    \/ (c >= 9 /\ c <= 13)
    \/ (c >= 28 /\ c <= 32)
    \/ c = 133 \/ c = 160 \/ c = 5760
    \/ (c >= 8192 /\ c <= 8202)
    \/ c = 8232 \/ c = 8233 \/ c = 8239 \/ c = 8287 \/ c = 12288

\* the least and the greatest element of a non-empty set of integers
\* the element of a singleton.  A call evaluates its argument once, as
\* Python does: the operators below that read an argument at every index
\* first bind its value, v \in {s}.
Only(set) == CHOOSE x \in set : TRUE

\* the least and the greatest element of a non-empty set of integers
Least(set) == Only({(CHOOSE x \in v : \A y \in v : x <= y) : v \in {set}})
Greatest(set) == Only({(CHOOSE x \in v : \A y \in v : x >= y) : v \in {set}})

\* the indices of s, in increasing order
Indices(s) == [k \in 1..Len(s) |-> k]

\* str.lstrip(): from the first character that is not a space on
LStrip(s) ==
    Only({LET kept == {k \in 1..Len(v) : ~IsSpace(v[k])} IN
          IF kept = {} THEN <<>> ELSE SubSeq(v, Least(kept), Len(v)) : v \in {s}})

\* str.rstrip(): up to the last character that is not a space
RStrip(s) ==
    Only({LET kept == {k \in 1..Len(v) : ~IsSpace(v[k])} IN
          IF kept = {} THEN <<>> ELSE SubSeq(v, 1, Greatest(kept)) : v \in {s}})

\* str.strip()
Strip(s) == RStrip(LStrip(s))

\* str.lower() on the ASCII letters
Lower(s) ==
    Only({[k \in 1..Len(v) |-> IF IsUpper(v[k]) THEN v[k] + 32 ELSE v[k]] : v \in {s}})

\* str.split(): the maximal runs of non-space characters
Split(s) ==
    Only({Only({[w \in 1..Len(starts) |-> SubSeq(v, starts[w], ends[w])] :
                starts \in {SelectSeq(Indices(v),
                    LAMBDA k : ~IsSpace(v[k]) /\ (k = 1 \/ IsSpace(v[k - 1])))},
                ends \in {SelectSeq(Indices(v),
                    LAMBDA k : ~IsSpace(v[k]) /\ (k = Len(v) \/ IsSpace(v[k + 1])))}}) :
          v \in {s}})

\* ' '.join(words)
RECURSIVE Join(_)
Join(words) ==
    IF words = <<>> THEN <<>>
    ELSE IF Len(words) = 1 THEN words[1]
    ELSE words[1] \o <<32>> \o Join(Tail(words))

Ellipsis == <<46, 46, 46>>

\* n copies of b
Fill(b, n) == [k \in 1..n |-> b]

(***************************************************************************)
(* UTF-8                                                                   *)
(***************************************************************************)
\* the length a lead byte announces, 0 for a byte that cannot lead
Utf8Need(b) ==
    IF b < 128 THEN 1
    ELSE IF b >= 194 /\ b <= 223 THEN 2
    ELSE IF b >= 224 /\ b <= 239 THEN 3
    ELSE IF b >= 240 /\ b <= 244 THEN 4
    ELSE 0

IsCont(b) == b >= 128 /\ b <= 191

\* the second byte of a sequence is further restricted by its lead byte
SecondOk(lead, b) ==
    IF lead = 224 THEN b >= 160 /\ b <= 191
    ELSE IF lead = 237 THEN b >= 128 /\ b <= 159
    ELSE IF lead = 240 THEN b >= 144 /\ b <= 191
    ELSE IF lead = 244 THEN b >= 128 /\ b <= 143
    ELSE IsCont(b)

\* a well-formed sequence starts at 1-based index k of bytes
Utf8ValidAt(bytes, k) ==
    LET n == Utf8Need(bytes[k]) IN
    /\ n > 0
    /\ k + n - 1 <= Len(bytes)
    /\ (n >= 2 => SecondOk(bytes[k], bytes[k + 1]))
    /\ \A j \in 2..(n - 1) : IsCont(bytes[k + j])

Utf8CodePoint(bytes, k) ==
    LET n == Utf8Need(bytes[k]) IN
    IF n = 1 THEN bytes[k]
    ELSE IF n = 2 THEN (bytes[k] - 192) * 64 + (bytes[k + 1] - 128)
    ELSE IF n = 3
         THEN (bytes[k] - 224) * 4096 + (bytes[k + 1] - 128) * 64 + (bytes[k + 2] - 128)
    ELSE (bytes[k] - 240) * 262144 + (bytes[k + 1] - 128) * 4096
         + (bytes[k + 2] - 128) * 64 + (bytes[k + 3] - 128)

\* the indices where a well-formed sequence starts.  Every byte of such a
\* sequence but its first is a continuation byte, and a continuation byte
\* starts no sequence, so well-formed sequences never overlap and a decoder
\* reading from the left meets each of them.
Utf8Starts(bytes) ==
    Only({SelectSeq(Indices(v), LAMBDA k : Utf8ValidAt(v, k)) : v \in {bytes}})

\* byte k belongs to a well-formed sequence
Utf8Covered(bytes, k) ==
    \E j \in Max(1, k - 3)..k :
        Utf8ValidAt(bytes, j) /\ j + Utf8Need(bytes[j]) > k

\* bytes.decode('utf-8', errors='ignore'): bytes that are part of no
\* well-formed sequence are dropped
DecodeIgnore(bytes) ==
    Only({Only({[n \in 1..Len(starts) |-> Utf8CodePoint(v, starts[n])] :
                starts \in {Utf8Starts(v)}}) : v \in {bytes}})

\* bytes.decode('utf-8'): UnicodeDecodeError when a byte is part of no
\* well-formed sequence
DecodeStrict(bytes) ==
    Only({IF \A k \in 1..Len(v) : Utf8Covered(v, k)
          THEN [ok |-> TRUE, text |-> DecodeIgnore(v)]
          ELSE [ok |-> FALSE, text |-> <<>>] : v \in {bytes}})

(***************************************************************************)
(* Quoted-text values: None, a str, or a ForwardInfo(hash_id)              *)
(***************************************************************************)
NoQuote == [kind |-> "none", text |-> <<>>]
TextQuote(t) == [kind |-> "text", text |-> t]

\* formatter.ForwardInfo: an object holding the sanitized hash
ForwardInfo(hash_id) == [kind |-> "forward", text |-> hash_id]

\* Python truthiness of a quoted-text value: None and '' are falsy, a
\* ForwardInfo object is truthy
Truthy(q) == q.kind = "forward" \/ (q.kind = "text" /\ q.text # <<>>)

\* a loop body without the bound on shift
VarintBodyNoCap(blob, st) ==
    LET byte == At(blob, st.pos) IN
    [groups |-> Append(st.groups, byte % 128),
     shift  |-> IF byte >= 128 THEN st.shift + 7 ELSE st.shift,
     pos    |-> st.pos + 1,
     brk    |-> byte < 128]

(***************************************************************************)
(* _decode_varint                                                          *)
(***************************************************************************)
\* One iteration of the while loop; st = [groups, shift, pos, brk].  The
\* value the code accumulates, value |= (byte & 0x7F) << shift, is kept as
\* its base-128 digits (groups, least significant first): Python integers
\* are unbounded, the checker's are not.
VarintBody(blob, st) ==
    LET byte == At(blob, st.pos) IN
    [groups |-> Append(st.groups, byte % 128),
     shift  |-> IF byte >= 128 THEN st.shift + 7 ELSE st.shift,
     pos    |-> st.pos + 1,
     brk    |-> byte < 128 \/ st.shift + 7 >= 64]

VarintStart(start_pos) == [groups |-> <<>>, shift |-> 0, pos |-> start_pos, brk |-> FALSE]

\* while pos < len(blob), until a break
VarintContinues(blob, st) == ~st.brk /\ st.pos < Len(blob)

RECURSIVE VarintLoop(_, _)
VarintLoop(blob, st) ==
    IF VarintContinues(blob, st) THEN VarintLoop(blob, VarintBody(blob, st)) ELSE st

\* larger than the length of any blob of the model
Huge == 128 * 128 * 128 * 128

\* the integer the digits stand for, exact below Huge and Huge from there on
VarintValue(groups) ==
    IF \E k \in 5..Len(groups) : groups[k] # 0 THEN Huge
    ELSE (IF Len(groups) >= 1 THEN groups[1] ELSE 0)
       + (IF Len(groups) >= 2 THEN groups[2] * 128 ELSE 0)
       + (IF Len(groups) >= 3 THEN groups[3] * 128 * 128 ELSE 0)
       + (IF Len(groups) >= 4 THEN groups[4] * 128 * 128 * 128 ELSE 0)

\* returns (value, next_pos)
_decode_varint(blob, start_pos) ==
    LET st == VarintLoop(blob, VarintStart(start_pos)) IN
    [value |-> VarintValue(st.groups), groups |-> st.groups, pos |-> st.pos]

(***************************************************************************)
(* _extract_quoted_text: the text of one length-delimited field            *)
(***************************************************************************)
\* blob[a:b].decode('utf-8', errors='ignore').strip()
FieldText(data) == Strip(DecodeIgnore(data))

\* re.sub(r'[\x00-\x1f]+', '', text)
StripControls(text) == SelectSeq(text, LAMBDA c : ~IsControl(c))

\* re.sub(r"[^A-Za-z0-9'`{}]", "", text)
Sanitize(text) == SelectSeq(text, LAMBDA c : IsAlnum(c) \/ IsQuoteSep(c) \/ IsBrace(c))

\* the number of leading characters of s in [A-Za-z0-9]
AlnumRun(s) ==
    Only({LET others == {k \in 1..Len(v) : ~IsAlnum(v[k])} IN
          IF others = {} THEN Len(v) ELSE Least(others) - 1 : v \in {s}})

\* re.fullmatch(r"[A-Za-z0-9]{2,24}['`][A-Za-z0-9{}]{2,48}", s): the first
\* token cannot hold the separator, so it is the leading alphanumeric run
ForwardHashShape(s) ==
    LET p == AlnumRun(s) IN
    /\ p >= 2 /\ p <= 24
    /\ Len(s) > p
    /\ IsQuoteSep(s[p + 1])
    /\ Len(s) - (p + 1) >= 2 /\ Len(s) - (p + 1) <= 48
    /\ \A k \in (p + 2)..Len(s) : IsAlnum(s[k]) \/ IsBrace(s[k])

\* any(c.isdigit() or c in '{}' or (c.isalpha() and c.isupper()) for c in s)
HasHashChar(s) == \E k \in 1..Len(s) : IsDigit(s[k]) \/ IsBrace(s[k]) \/ IsUpper(s[k])

\* core.py's test (the legacy exporter's has no length condition)
IsForwardHashNoMinLen(sanitized) ==
    ForwardHashShape(sanitized) /\ HasHashChar(sanitized)

IsForwardHash(sanitized) ==
    Len(sanitized) > 10 /\ ForwardHashShape(sanitized) /\ HasHashChar(sanitized)

\* a quote longer than 50 characters is cut at a word boundary
TruncateQuote(text) ==
    IF Len(text) > 50
    THEN LET words == Split(Slice(text, 0, 50)) IN
         IF Len(words) > 1
         THEN Join(SubSeq(words, 1, Len(words) - 1)) \o Ellipsis
         ELSE Slice(text, 0, 50) \o Ellipsis
    ELSE text

\* what the tag-1 scan does with the cleaned text of a field: a
\* ForwardInfo, the (truncated) quote, or nothing when it is too short
ClassifyTag1Text(text) ==
    IF Len(text) > 3
    THEN IF IsForwardHash(Sanitize(text))
         THEN ForwardInfo(Sanitize(text))
         ELSE TextQuote(TruncateQuote(text))
    ELSE NoQuote

(***************************************************************************)
(* The blob-scanning loops, one iteration each.  An iteration yields the   *)
(* loop's next state; exc records an IndexError (a read outside the blob). *)
(***************************************************************************)
InBlob(blob, i) == i >= 0 /\ i < Len(blob)

\* _extract_quoted_text, first loop: while i < len(blob) - 3
Tag1Continues(blob, i) == i < Len(blob) - 3

\* the length and data start of the record at i: one length byte below
\* 128, a varint otherwise
Tag1Length(blob, i) ==
    IF At(blob, i + 1) < 128
    THEN [length |-> At(blob, i + 1), data_start |-> i + 2]
    ELSE LET v == _decode_varint(blob, i + 1) IN
         [length |-> v.value, data_start |-> v.pos]

\* the body of the first loop at position i
Tag1Body(blob, i) ==
    IF ~InBlob(blob, i) \/ (At(blob, i) = 10 /\ ~InBlob(blob, i + 1))
    THEN [i |-> i, returned |-> FALSE, ret |-> NoQuote, exc |-> TRUE]
    ELSE IF At(blob, i) = 10 /\ At(blob, i) % 8 = 2
    THEN LET rec == Tag1Length(blob, i)
             fits == rec.data_start + rec.length <= Len(blob) /\ rec.length > 10
             text == StripControls(FieldText(
                         Slice(blob, rec.data_start, rec.data_start + rec.length)))
             found == IF fits THEN ClassifyTag1Text(text) ELSE NoQuote
         IN IF found.kind # "none"
            THEN [i |-> i, returned |-> TRUE, ret |-> found, exc |-> FALSE]
            ELSE [i |-> i + 1, returned |-> FALSE, ret |-> NoQuote, exc |-> FALSE]
    ELSE [i |-> i + 1, returned |-> FALSE, ret |-> NoQuote, exc |-> FALSE]

\* _extract_quoted_text, second loop: while i < len(blob) - 2
FallbackContinues(blob, i) == i < Len(blob) - 2

\* the body of the second loop; best is best_match (<<>> for None)
FallbackBody(blob, i, best) ==
    IF ~InBlob(blob, i)
    THEN [i |-> i, best |-> best, exc |-> TRUE]
    ELSE LET tag_byte == At(blob, i)
             tag == tag_byte \div 8
         IN IF tag_byte % 8 = 2 /\ tag <= 4 /\ tag # 1
            THEN IF ~InBlob(blob, i + 1)
                 THEN [i |-> i, best |-> best, exc |-> TRUE]
                 ELSE IF At(blob, i + 1) < 128
                 THEN LET length == At(blob, i + 1)
                          data_start == i + 2
                          text == StripControls(FieldText(
                                      Slice(blob, data_start, data_start + length)))
                          take == /\ data_start + length <= Len(blob)
                                  /\ 10 < length /\ length < 500
                                  /\ Len(text) > 3
                                  /\ best = <<>>
                      IN [i |-> i + data_start + length,
                          best |-> IF take THEN text ELSE best,
                          exc |-> FALSE]
                 ELSE [i |-> i + 1, best |-> best, exc |-> FALSE]
            ELSE [i |-> i + 1, best |-> best, exc |-> FALSE]

\* _parse_metadata_replies, fragment loop: while i < len(blob) - 2
FragmentContinues(blob, i) == i < Len(blob) - 2

FragmentTags == {5, 6, 9, 13, 14}
ExtraTags == {2, 3, 4}

\* the words whose presence marks a tag-1 text as a quoted message
QuoteWords ==
    {S("que"), S("je"), S("tu"), S("il"), S("elle"), S("on"), S("nous"), S("vous"),
     S("ils")}

\* a record whose length byte is zero is skipped without its two header bytes
FragmentAdvanceNoHeader(i, length) == i + length

\* i += 2 + length: past the tag byte, the length byte and the data
FragmentAdvance(i, length) == i + 2 + length

\* the body of the fragment loop; parts and quoted_content are its results
FragmentBody(blob, i, parts, quoted_content) ==
    IF ~InBlob(blob, i)
    THEN [i |-> i, parts |-> parts, quoted_content |-> quoted_content, exc |-> TRUE]
    ELSE LET b == At(blob, i) IN
         IF b % 8 = 2 /\ i + 1 < Len(blob)
         THEN LET tag == b \div 8
                  length == At(blob, i + 1)
                  text == FieldText(Slice(blob, i + 2, i + 2 + length))
              IN IF 10 < length /\ length < 130 /\ tag \in FragmentTags
                 THEN [i |-> FragmentAdvance(i, length),
                       parts |-> IF text # <<>> THEN Append(parts, text) ELSE parts,
                       quoted_content |-> quoted_content, exc |-> FALSE]
                 ELSE IF tag = 1 /\ 50 < length /\ length < 500
                 THEN [i |-> FragmentAdvance(i, length),
                       parts |-> parts,
                       quoted_content |->
                           IF /\ text # <<>> /\ Len(text) > 20
                              /\ \E word \in QuoteWords : Contains(Lower(text), word)
                           THEN Slice(text, 0, 200)
                           ELSE quoted_content,
                       exc |-> FALSE]
                 ELSE IF tag \in ExtraTags /\ 15 < length /\ length < 200
                 THEN [i |-> FragmentAdvance(i, length),
                       parts |-> IF text # <<>> /\ Len(text) > 15
                                 THEN Append(parts, text) ELSE parts,
                       quoted_content |-> quoted_content, exc |-> FALSE]
                 ELSE [i |-> FragmentAdvance(i, length), parts |-> parts,
                       quoted_content |-> quoted_content, exc |-> FALSE]
         ELSE [i |-> i + 1, parts |-> parts, quoted_content |-> quoted_content,
               exc |-> FALSE]

(***************************************************************************)
(* The loops run to completion                                             *)
(***************************************************************************)
\* the first loop from position i: the value it returns, or NoQuote when it
\* runs off the end (an exception is caught by _extract_quoted_text's
\* try/except, which returns None)
\*
\* An iteration that finds no field at its position only steps to the next
\* byte and leaves the loop's results as they are.  Each loop is run from
\* one iteration that does more than that to the next: Tag1Next,
\* FallbackNext and FragmentNext give the position of the first iteration
\* from i on where the loop ends, raises, returns or moves by more than one.
Tag1Next(blob, i) ==
    Only({Least({j \in i..Max(i, Len(b)) :
                    \/ ~Tag1Continues(b, j)
                    \/ Tag1Body(b, j).exc
                    \/ Tag1Body(b, j).returned
                    \/ Tag1Body(b, j).i # j + 1}) : b \in {blob}})

RECURSIVE Tag1Scan(_, _)
Tag1Scan(blob, i) ==
    Only({IF ~Tag1Continues(b, j) THEN NoQuote
          ELSE Only({IF r.exc THEN NoQuote
                     ELSE IF r.returned THEN r.ret
                     ELSE Tag1Scan(b, r.i) : r \in {Tag1Body(b, j)}}) :
          b \in {blob}, j \in {Tag1Next(blob, i)}})

FallbackNext(blob, i) ==
    Only({Least({j \in i..Max(i, Len(b)) :
                    \/ ~FallbackContinues(b, j)
                    \/ FallbackBody(b, j, <<>>).exc
                    \/ FallbackBody(b, j, <<>>).i # j + 1}) : b \in {blob}})

RECURSIVE FallbackScan(_, _, _)
FallbackScan(blob, i, best) ==
    Only({IF ~FallbackContinues(b, j) THEN m
          ELSE Only({IF r.exc THEN <<>> ELSE FallbackScan(b, r.i, r.best) :
                     r \in {FallbackBody(b, j, m)}}) :
          b \in {blob}, j \in {FallbackNext(blob, i)}, m \in {best}})

FragmentNext(blob, i) ==
    Only({Least({j \in i..Max(i, Len(b)) :
                    \/ ~FragmentContinues(b, j)
                    \/ FragmentBody(b, j, <<>>, <<>>).exc
                    \/ FragmentBody(b, j, <<>>, <<>>).i # j + 1}) : b \in {blob}})

RECURSIVE FragmentScan(_, _, _, _)
FragmentScan(blob, i, parts, quoted_content) ==
    Only({IF ~FragmentContinues(b, j)
          THEN [parts |-> ps, quoted_content |-> qc]
          ELSE Only({FragmentScan(b, r.i, r.parts, r.quoted_content) :
                     r \in {FragmentBody(b, j, ps, qc)}}) :
          b \in {blob}, j \in {FragmentNext(blob, i)},
          ps \in {parts}, qc \in {quoted_content}})

\* the metadata part of _extract_quoted_text (core.py lines 440-513)
ExtractFromBlob(blob) ==
    LET first == Tag1Scan(blob, 0) IN
    IF first.kind # "none" THEN first
    ELSE LET best_match == FallbackScan(blob, 0, <<>>) IN
         IF best_match # <<>> THEN TextQuote(TruncateQuote(best_match)) ELSE NoQuote

(***************************************************************************)
(* _extract_reaction_emoji: the emoji inside a receipt blob.  hex_data is  *)
(* a sequence of hex digits 0..15 (bytes.hex().upper()).                   *)
(***************************************************************************)
\* bytes.hex(): two digits per byte, high digit first
Hex(bytes) ==
    Only({[k \in 1..(2 * Len(v)) |->
              IF k % 2 = 1 THEN v[(k + 1) \div 2] \div 16 ELSE v[k \div 2] % 16] :
          v \in {bytes}})

\* bytes.fromhex() of an even number of digits
FromHex(hex) ==
    Only({[k \in 1..(Len(v) \div 2) |-> v[2 * k - 1] * 16 + v[2 * k]] : v \in {hex}})

\* str.find(sub) for a sub that occurs in s: the first position
Find(s, sub) ==
    CHOOSE k \in 0..(Len(s) - Len(sub)) :
        /\ Slice(s, k, k + Len(sub)) = sub
        /\ \A j \in 0..(k - 1) : Slice(s, j, j + Len(sub)) # sub

PrefixF09F == <<15, 0, 9, 15>>
PrefixE2 == <<14, 2>>

\* re.findall(r'F09F[0-9A-F]{4}', hex_data) from position p on: leftmost
\* matches, not overlapping
RECURSIVE FindAllF09F(_, _)
FindAllF09F(hex, p) ==
    Only({LET at == {q \in p..(Len(h) - 8) : Slice(h, q, q + 4) = PrefixF09F} IN
          IF at = {} THEN <<>>
          ELSE <<Slice(h, Least(at), Least(at) + 8)>> \o FindAllF09F(h, Least(at) + 8) :
          h \in {hex}})

\* re.findall(r'E2[8-9A-B][0-9A-F][0-9A-F]{2}', hex_data) from position p on
RECURSIVE FindAllE2(_, _)
FindAllE2(hex, p) ==
    Only({LET at == {q \in p..(Len(h) - 6) :
                        /\ Slice(h, q, q + 2) = PrefixE2
                        /\ At(h, q + 2) >= 8 /\ At(h, q + 2) <= 11} IN
          IF at = {} THEN <<>>
          ELSE <<Slice(h, Least(at), Least(at) + 6)>> \o FindAllE2(h, Least(at) + 6) :
          h \in {hex}})

\* re.match(r'F09F8F(BB|BC|BD|BE|BF)', remaining): the matched digits, or <<>>
SkinModifier(remaining) ==
    IF /\ Len(remaining) >= 8
       /\ SubSeq(remaining, 1, 6) = <<15, 0, 9, 15, 8, 15>>
       /\ remaining[7] = 11
       /\ remaining[8] >= 11
    THEN SubSeq(remaining, 1, 8)
    ELSE <<>>

\* re.match(r'EFB8[8-9A-B][0-9A-F]', remaining): the matched digits, or <<>>
ColorModifier(remaining) ==
    IF /\ Len(remaining) >= 6
       /\ SubSeq(remaining, 1, 4) = <<14, 15, 11, 8>>
       /\ remaining[5] >= 8 /\ remaining[5] <= 11
    THEN SubSeq(remaining, 1, 6)
    ELSE <<>>

\* the E2 family scanned as well when no F09F candidate decodes
ReactionFamilyFallsBack(hex) ==
    IF /\ Contains(hex, PrefixF09F)
       /\ \E q \in 0..(Len(hex) - 8) :
              /\ Slice(hex, q, q + 4) = PrefixF09F
              /\ DecodeStrict(FromHex(Slice(hex, q, q + 8))).ok
    THEN "F09F"
    ELSE IF Contains(hex, PrefixE2) THEN "E2"
    ELSE "none"

\* which family the decoder scans: F09F when 'F09F' occurs in the hex,
\* else E2 when 'E2' occurs, else none
ReactionFamily(hex) ==
    IF Contains(hex, PrefixF09F) THEN "F09F"
    ELSE IF Contains(hex, PrefixE2) THEN "E2"
    ELSE "none"

\* base_matches: the candidates of the scanned family, in order
BaseMatches(hex) ==
    IF ReactionFamily(hex) = "F09F" THEN FindAllF09F(hex, 0)
    ELSE IF ReactionFamily(hex) = "E2" THEN FindAllE2(hex, 0)
    ELSE <<>>

\* the hex run decoded for one candidate: the candidate, plus the modifier
\* that follows the candidate's first occurrence in hex_data
FullSequence(hex, base_emoji) ==
    LET base_pos == Find(hex, base_emoji)
        remaining == Slice(hex, base_pos + Len(base_emoji), Len(hex))
    IN base_emoji \o (IF ReactionFamily(hex) = "F09F"
                      THEN SkinModifier(remaining)
                      ELSE ColorModifier(remaining))

\* one pass of the for loop over base_matches: [ok, text]; ok = FALSE is
\* the except branch (UnicodeDecodeError), which moves on to the next match
TryCandidate(hex, base_emoji) == DecodeStrict(FromHex(FullSequence(hex, base_emoji)))

\* the loop given up at the first candidate that does not decode
FirstDecodableNoRetry(hex, matches, k) ==
    IF k > Len(matches) THEN <<>>
    ELSE LET r == TryCandidate(hex, matches[k]) IN
         IF r.ok /\ r.text # <<>> THEN r.text ELSE <<>>

\* the loop from candidate k on: the first candidate that decodes to a
\* non-empty string ends it; <<>> is None
RECURSIVE FirstDecodable(_, _, _)
FirstDecodable(hex, matches, k) ==
    IF k > Len(matches) THEN <<>>
    ELSE LET r == TryCandidate(hex, matches[k]) IN
         IF r.ok /\ r.text # <<>> THEN r.text
         ELSE FirstDecodable(hex, matches, k + 1)

\* _extract_reaction_emoji for a bytes blob of an individual conversation
\* (is_group false): the emoji, or <<>> for None
_extract_reaction_emoji(receipt_info) ==
    IF receipt_info = <<>> THEN <<>>
    ELSE FirstDecodable(Hex(receipt_info), BaseMatches(Hex(receipt_info)), 1)

(***************************************************************************)
(* The database.  ZWAMESSAGE is the variable db (a row's Z_PK is its       *)
(* index); ZWAMEDIAITEM is the fixed table below.  NULL is <<>> for a      *)
(* text or blob column and 0 for a number or a row reference.  The texts   *)
(* of the model are ASCII, so a text's code points are its UTF-8 bytes.    *)
(***************************************************************************)
HelloText == S("Hello")

\* 62 characters: longer than the 50 of a parent quote, long enough (>= 40)
\* to be indexed as an original
LongText == S("je pense que nous pouvons partir demain matin vers huit heures")

\* a plain quote and a forward hash as tag-1 records (0x0a, length, data)
QuoteBlob == <<10, 18>> \o S("hello there friend")
ForwardBlob == <<10, 13>> \o S("AB12cd34'xyZ3")

\* two fragments of LongText under tags 5 and 6 (0x2a, 0x32)
FragmentsBlob ==
    <<42, 26>> \o S("nous pouvons partir demain") \o <<50, 22>> \o S("demain matin vers huit")

\* a tag-1 record declaring 60 bytes and holding 55: the tag-1 scan of
\* _extract_quoted_text rejects it, the fragment scan reads what is there
DirectBlob == <<10, 60>> \o S("je pense que nous pouvons partir demain matin vers huit")
FuzzyBlob == <<10, 60>> \o S("je crois que nous pouvons partir demain matin vers huit")

\* 65 characters whose first 60 hold both fragments of FragmentsBlob
OtherText == S("demain matin vers huit heures nous pouvons partir demain ensemble")

\* one fragment of LongText under tag 5
SingleBlob == <<42, 26>> \o S("nous pouvons partir demain")

\* a plain quote as a tag-1 record, then the two fragments
QuoteFragmentsBlob == QuoteBlob \o FragmentsBlob

MediaRow(path, title, size, metadata, message) ==
    [ZMEDIALOCALPATH |-> path, ZTITLE |-> title, ZFILESIZE |-> size,
     ZMETADATA |-> metadata, ZMESSAGE |-> message]

ZWAMEDIAITEM ==
    <<MediaRow(S("Media/a.jpg"), <<>>, 1000, <<>>, 1),
      MediaRow(<<>>, <<>>, 0, QuoteBlob, 0),
      MediaRow(<<>>, <<>>, 0, ForwardBlob, 0),
      MediaRow(<<>>, <<>>, 0, FragmentsBlob, 0),
      MediaRow(<<>>, <<>>, 0, DirectBlob, 0),
      MediaRow(<<>>, <<>>, 0, FuzzyBlob, 0),
      MediaRow(<<>>, <<>>, 0, SingleBlob, 0),
      MediaRow(<<>>, <<>>, 0, QuoteFragmentsBlob, 0),
      MediaRow(<<>>, <<>>, 0, <<>>, 3),
      MediaRow(<<>>, <<32, 32>>, 0, <<>>, 0)>>

\* the media files present under media_base_path
ExistingFiles == {S("Media/a.jpg")}

\* a ZFLAGS value: NULL, an integer, or (the column is untyped) a text
NullFlags == [kind |-> "null", val |-> 0]
IntFlags(v) == [kind |-> "int", val |-> v]
TextFlags == [kind |-> "text", val |-> 0]

MessageRow(date, text, from_me, type, parent, flags, media, receipt) ==
    [ZMESSAGEDATE |-> date, ZTEXT |-> text, ZISFROMME |-> from_me,
     ZMESSAGETYPE |-> type, ZPARENTMESSAGE |-> parent, ZFLAGS |-> flags,
     ZMEDIAITEM |-> media, ZRECEIPTINFO |-> receipt]

(***************************************************************************)
(* _process_message_row                                                    *)
(***************************************************************************)
\* seconds between the Unix epoch and the database's epoch (2001-01-01)
AppleEpoch == 978307200

\* A date is kept as the number of seconds its 'YYYY-MM-DD HH:MM:SS' text
\* stands for (timestamps of the model are whole seconds, the zone has a
\* fixed offset); 0 is None
_convert_timestamp(timestamp) ==
    IF timestamp = 0 THEN 0 ELSE timestamp + AppleEpoch

\* row[10] or 0, for a NULL or integer column value
FlagsOrZero(flags) == IF flags.kind = "int" THEN flags.val ELSE 0

\* bool(flags & 0x180 == 0x180): bits 7 and 8 both set
ForwardBits(flags) == (flags \div 128) % 2 = 1 /\ (flags \div 256) % 2 = 1

\* line 306 on a text value: int & str raises TypeError
RowRaises(row) == row.ZFLAGS.kind = "text"

NoMedia ==
    [present |-> FALSE, local_path |-> <<>>, title |-> <<>>, file_size |-> 0,
     message_type |-> 0]

MediaInfo(local_path, title, file_size, message_type) ==
    [present |-> TRUE, local_path |-> local_path, title |-> title,
     file_size |-> file_size, message_type |-> message_type]

\* the columns the LEFT JOIN on ZMEDIAITEM adds to a row
JoinedMedia(media_item_id) ==
    IF media_item_id \in DOMAIN ZWAMEDIAITEM
    THEN ZWAMEDIAITEM[media_item_id]
    ELSE MediaRow(<<>>, <<>>, 0, <<>>, 0)

\* lines 308-327: the descriptor built from the row's own columns
RowMediaInfo(row) ==
    LET mi == JoinedMedia(row.ZMEDIAITEM) IN
    IF row.ZMEDIAITEM = 0 THEN NoMedia
    ELSE IF row.ZMESSAGETYPE = 59
    THEN MediaInfo(<<>>, S("Appel vocal/vid") \o <<233, 111>>, 0, 59)
    ELSE IF \/ mi.ZMEDIALOCALPATH # <<>>
            \/ mi.ZFILESIZE > 0
            \/ Strip(mi.ZTITLE) # <<>>
    THEN MediaInfo(mi.ZMEDIALOCALPATH, mi.ZTITLE, mi.ZFILESIZE, row.ZMESSAGETYPE)
    ELSE NoMedia

MediaTypes == {1, 2, 3, 5, 9, 13, 14}

\* _get_message_media: for a media type, the media item whose ZMESSAGE is
\* the message replaces the descriptor; its path is kept when the file exists
_get_message_media(pk, row, media_info) ==
    IF /\ row.ZMESSAGETYPE \in MediaTypes
       /\ \E k \in DOMAIN ZWAMEDIAITEM : ZWAMEDIAITEM[k].ZMESSAGE = pk
    THEN LET k == CHOOSE j \in DOMAIN ZWAMEDIAITEM :
                      /\ ZWAMEDIAITEM[j].ZMESSAGE = pk
                      /\ \A h \in DOMAIN ZWAMEDIAITEM :
                             ZWAMEDIAITEM[h].ZMESSAGE = pk => j <= h
             mi == ZWAMEDIAITEM[k]
         IN MediaInfo(IF mi.ZMEDIALOCALPATH \in ExistingFiles
                      THEN mi.ZMEDIALOCALPATH ELSE <<>>,
                      mi.ZTITLE, mi.ZFILESIZE, row.ZMESSAGETYPE)
    ELSE media_info

\* os.path.splitext(path)[1].lower(): from the last dot of the last path
\* component on, unless that dot leads the component
LastIndexOf(s, c, k) ==
    Only({LET hits == {j \in 1..k : v[j] = c} IN
          IF hits = {} THEN 0 ELSE Greatest(hits) : v \in {s}})

SplitExt(path) ==
    LET slash == LastIndexOf(path, 47, Len(path))
        dot == LastIndexOf(path, 46, Len(path))
    IN IF dot > slash + 1 /\ (\E k \in (slash + 1)..(dot - 1) : path[k] # 46)
       THEN Lower(SubSeq(path, dot, Len(path)))
       ELSE <<>>

\* lines 416-424
MediaTypeName(path) ==
    LET ext == SplitExt(path) IN
    IF ext \in {S(".jpg"), S(".jpeg"), S(".png"), S(".gif"), S(".webp")} THEN S("Image")
    ELSE IF ext \in {S(".mp4"), S(".mov"), S(".avi")} THEN S("Video")
    ELSE IF ext \in {S(".mp3"), S(".wav"), S(".m4a")} THEN S("Audio")
    ELSE S("Media")

\* _extract_quoted_text(media_item_id): '[Type]' or '[Type] title' for an
\* item with a local path, otherwise what the metadata blob yields
_extract_quoted_text(media_item_id) ==
    IF media_item_id \notin DOMAIN ZWAMEDIAITEM THEN NoQuote
    ELSE LET mi == ZWAMEDIAITEM[media_item_id] IN
         IF mi.ZMEDIALOCALPATH # <<>>
         THEN IF Strip(mi.ZTITLE) # <<>>
              THEN TextQuote(S("[") \o MediaTypeName(mi.ZMEDIALOCALPATH) \o S("] ")
                             \o Strip(mi.ZTITLE))
              ELSE TextQuote(S("[") \o MediaTypeName(mi.ZMEDIALOCALPATH) \o S("]"))
         ELSE IF mi.ZMETADATA = <<>> THEN NoQuote
         ELSE ExtractFromBlob(mi.ZMETADATA)

\* _get_parent_message_media_id: ZMEDIAITEM of the row whose Z_PK is the
\* parent id, looked up in the table (not in the fetched batch)
_get_parent_message_media_id(table, parent_message_id) ==
    IF parent_message_id \in DOMAIN table THEN table[parent_message_id].ZMEDIAITEM ELSE 0

\* lines 338-348: the message's own media item first, then the parent's
FirstPassQuote(table, row) ==
    LET own == IF row.ZMEDIAITEM # 0 THEN _extract_quoted_text(row.ZMEDIAITEM) ELSE NoQuote
        parent_media_id == _get_parent_message_media_id(table, row.ZPARENTMESSAGE)
    IN IF ~Truthy(own) /\ row.ZPARENTMESSAGE # 0
       THEN (IF parent_media_id # 0 THEN _extract_quoted_text(parent_media_id) ELSE NoQuote)
       ELSE own

\* a forward marker kept as the quote all the same
StoredQuoteKeepsForward(quoted_text) ==
    IF Truthy(quoted_text) THEN quoted_text ELSE NoQuote

\* lines 351-352: stored when truthy and not a ForwardInfo
StoredQuote(quoted_text) ==
    IF Truthy(quoted_text) /\ quoted_text.kind # "forward" THEN quoted_text ELSE NoQuote

\* _check_forwarded_message: 'forwarded', 'transferred' or U+21AA in the
\* lowered content
ForwardIndicators == {S("forwarded"), S("transferred"), <<8618>>}

_check_forwarded_message(content, is_forwarded) ==
    is_forwarded \/ \E indicator \in ForwardIndicators : Contains(Lower(content), indicator)

\* _get_message_reactions: the reaction of the message's receipt, None when
\* there is no receipt or nothing decodes; whatever the decoder raises is
\* swallowed here
_get_message_reactions(row) ==
    IF row.ZRECEIPTINFO # <<>> THEN _extract_reaction_emoji(row.ZRECEIPTINFO) ELSE <<>>

\* the message appended for a row that raises nothing.  The conversations of
\* the model are individual ones (contact_jid does not end in '@g.us'), so
\* sender_name stays None.
_process_message_row(table, pk) ==
    LET row == table[pk]
        flags == FlagsOrZero(row.ZFLAGS)
    IN [message_id |-> pk,
        date |-> _convert_timestamp(row.ZMESSAGEDATE),
        content |-> row.ZTEXT,
        is_from_me |-> row.ZISFROMME,
        message_type |-> row.ZMESSAGETYPE,
        parent_message_id |-> row.ZPARENTMESSAGE,
        flags |-> flags,
        media_item_id |-> row.ZMEDIAITEM,
        sender_name |-> <<>>,
        quoted_text |-> StoredQuote(FirstPassQuote(table, row)),
        reaction_emoji |-> _get_message_reactions(row),
        media_info |-> _get_message_media(pk, row, RowMediaInfo(row)),
        is_forwarded |-> _check_forwarded_message(row.ZTEXT, ForwardBits(flags))]

(***************************************************************************)
(* _post_process_messages, step 1: parent links                            *)
(***************************************************************************)
\* the first 50 characters of the parent's content, never an ellipsis
ParentQuoteNoEllipsis(content) == Slice(content, 0, 50)

\* lines 745-747: the first 50 characters, '...' after a longer content
ParentQuote(content) ==
    IF Len(content) > 50 THEN Slice(content, 0, 50) \o Ellipsis ELSE Slice(content, 0, 50)

\* message_lookup[message_id]: the position in msgs of the last message
\* with that id, 0 when there is none
Lookup(msgs, message_id) ==
    IF \E k \in 1..Len(msgs) : msgs[k].message_id = message_id
    THEN CHOOSE k \in 1..Len(msgs) :
             /\ msgs[k].message_id = message_id
             /\ \A j \in (k + 1)..Len(msgs) : msgs[j].message_id # message_id
    ELSE 0

\* lines 741-748 for one message
ResolveParentQuote(msgs, message) ==
    IF /\ ~Truthy(message.quoted_text)
       /\ message.parent_message_id # 0
       /\ Lookup(msgs, message.parent_message_id) # 0
    THEN [message EXCEPT !.quoted_text =
             TextQuote(ParentQuote(msgs[Lookup(msgs, message.parent_message_id)].content))]
    ELSE message

\* every message with a media item is a target
IsReplyTargetAnyQuote(m) == m.media_item_id # 0

\* lines 751-752
IsReplyTarget(m) ==
    ~Truthy(m.quoted_text) /\ m.parent_message_id = 0 /\ m.media_item_id # 0

(***************************************************************************)
(* _parse_metadata_replies and _find_matching_message_by_content           *)
(***************************************************************************)
\* meta_map.get(media_item_id): the item's ZMETADATA, <<>> when missing
MetaMap(media_item_id) ==
    IF media_item_id \in DOMAIN ZWAMEDIAITEM
    THEN ZWAMEDIAITEM[media_item_id].ZMETADATA
    ELSE <<>>

\* a delta of one second past the 48 hours still accepted
WithinWindowPlusOne(delta) == ~(delta > 48 * 3600 + 1)

\* if delta > 48 * 3600: continue
WithinWindow(delta) == ~(delta > 48 * 3600)

\* the checks both matchers make before looking at the content: the other
\* side's message, both dates known, t1 < t2, within the window
Eligible(candidate, msg) ==
    /\ candidate.is_from_me # msg.is_from_me
    /\ candidate.date # 0 /\ msg.date # 0
    /\ ~(candidate.date >= msg.date)
    /\ WithinWindow(msg.date - candidate.date)

\* content longer than 90 characters is cut at a word boundary
TruncateOriginal(content) ==
    IF Len(content) > 90
    THEN LET words == Split(Slice(content, 0, 90)) IN
         IF Len(words) > 1
         THEN Join(SubSeq(words, 1, Len(words) - 1)) \o Ellipsis
         ELSE Slice(content, 0, 85) \o Ellipsis
    ELSE content

ToSet(seq) == {seq[k] : k \in 1..Len(seq)}

CommonWords ==
    {S("le"), S("la"), S("les"), S("de"), S("du"), S("des"), S("un"), S("une"),
     S("et"), S("ou"), S("que"), S("qui"), S("je"), S("tu"), S("il"), S("elle"),
     S("on"), S("nous"), S("vous"), S("ils"), S("elles"), S("ce"), S("ca"),
     <<231, 97>>}

\* lines 922-933: more than 3 words left on each side, and an overlap of at
\* least min(3, 0.6 * len(quoted_words))
FuzzyMatch(clean_quoted, candidate_content) ==
    LET quoted_words == ToSet(Split(clean_quoted)) \ CommonWords
        candidate_words == ToSet(Split(candidate_content)) \ CommonWords
        overlap == Cardinality(quoted_words \cap candidate_words)
    IN /\ Cardinality(quoted_words) > 3
       /\ Cardinality(candidate_words) > 3
       /\ (overlap >= 3 \/ 10 * overlap >= 6 * Cardinality(quoted_words))

\* lines 915-933
ContentMatches(clean_quoted, candidate_content) ==
    \/ Contains(candidate_content, Slice(clean_quoted, 0, 50))
    \/ FuzzyMatch(clean_quoted, candidate_content)

\* the candidate at position k passes every test of the loop body
DirectCandidate(msgs, quoted_content, reply_msg, k) ==
    /\ msgs[k].content # <<>>
    /\ Eligible(msgs[k], reply_msg)
    /\ ContentMatches(Strip(Lower(quoted_content)), Strip(Lower(msgs[k].content)))

\* _find_matching_message_by_content: the position of the first message
\* that passes, 0 for None
_find_matching_message_by_content(msgs, quoted_content, reply_msg) ==
    IF \E k \in 1..Len(msgs) : DirectCandidate(msgs, quoted_content, reply_msg, k)
    THEN CHOOSE k \in 1..Len(msgs) :
             /\ DirectCandidate(msgs, quoted_content, reply_msg, k)
             /\ \A j \in 1..(k - 1) : ~DirectCandidate(msgs, quoted_content, reply_msg, j)
    ELSE 0

\* lines 772-775: a message is indexed under the first 60 characters of its
\* stripped content when that has at least 40
IsOriginal(m) == Len(Strip(m.content)) >= 40
OriginalKey(m) == Slice(Strip(m.content), 0, 60)

\* the position of the first message indexed under the key of msgs[k]: the
\* dict keeps its keys in the order they were first inserted
FirstWithKey(msgs, k) ==
    CHOOSE j \in 1..k :
        /\ IsOriginal(msgs[j]) /\ OriginalKey(msgs[j]) = OriginalKey(msgs[k])
        /\ \A h \in 1..(j - 1) :
               ~(IsOriginal(msgs[h]) /\ OriginalKey(msgs[h]) = OriginalKey(msgs[k]))

\* candidate a is visited before candidate b by the loops of lines 847-853
VisitedBefore(msgs, a, b) ==
    \/ FirstWithKey(msgs, a) < FirstWithKey(msgs, b)
    \/ (FirstWithKey(msgs, a) = FirstWithKey(msgs, b) /\ a < b)

\* lines 848-850
MatchFound(key, parts) ==
    \/ \E k \in 1..Len(parts) : Len(parts[k]) > 15 /\ Contains(key, parts[k])
    \/ Contains(Join(parts), Slice(key, 0, 25))

\* the candidates that reach line 869
FragmentCandidates(msgs, parts, msg) ==
    {k \in 1..Len(msgs) :
        /\ IsOriginal(msgs[k])
        /\ MatchFound(OriginalKey(msgs[k]), parts)
        /\ Eligible(msgs[k], msg)}

\* originals: the key of each indexed message, <<>> for the others
OriginalKeys(msgs) ==
    [k \in 1..Len(msgs) |-> IF IsOriginal(msgs[k]) THEN OriginalKey(msgs[k]) ELSE <<>>]

\* the positions of the indexed messages in the order the loops of lines
\* 847-853 visit them: key after key in the order the keys were inserted,
\* the messages of a key in list order
VisitOrderOf(keys) ==
    LET origs == {k \in DOMAIN keys : keys[k] # <<>>}
        first == [k \in DOMAIN keys |-> Least({j \in 1..k : keys[j] = keys[k]})]
    IN [r \in 1..Cardinality(origs) |->
           CHOOSE k \in origs :
               Cardinality({h \in origs :
                   first[h] < first[k] \/ (first[h] = first[k] /\ h < k)}) = r - 1]

\* a candidate of equal delta replaces the current best
ImprovesOrEqual(delta, best_delta) == best_delta = 0 \/ delta <= best_delta

\* line 869: if best_delta is None or delta < best_delta (a delta that
\* reaches this line is positive, 0 stands for None)
Improves(delta, best_delta) == best_delta = 0 \/ delta < best_delta

\* lines 844-873 from the r-th visited message on; 0 for None
RECURSIVE BestMatchLoop(_, _, _, _, _, _, _, _)
BestMatchLoop(msgs, keys, order, r, parts, msg, best_match, best_delta) ==
    IF r > Len(order) THEN best_match
    ELSE IF /\ MatchFound(keys[order[r]], parts)
            /\ Eligible(msgs[order[r]], msg)
            /\ Improves(msg.date - msgs[order[r]].date, best_delta)
    THEN BestMatchLoop(msgs, keys, order, r + 1, parts, msg,
                       order[r], msg.date - msgs[order[r]].date)
    ELSE BestMatchLoop(msgs, keys, order, r + 1, parts, msg, best_match, best_delta)

\* lines 844-873: the candidate with the smallest delta, the first visited
\* among equals; 0 for None
BestMatch(msgs, parts, msg) ==
    Only({Only({BestMatchLoop(msgs, keys, order, 1, p, msg, 0, 0) :
                   order \in {VisitOrderOf(keys)}}) :
             keys \in {OriginalKeys(msgs)}, p \in {parts}})

\* lines 778-881 for one target: the position of the message it is found to
\* quote (0 for none) and the tier that found it
ReplyMatch(msgs, msg) ==
    IF MetaMap(msg.media_item_id) = <<>> THEN [original |-> 0, tier |-> "none"]
    ELSE Only({
        IF scan.quoted_content # <<>> /\ Len(scan.parts) < 2
        THEN Only({IF best_match # 0
                   THEN [original |-> best_match, tier |-> "direct"]
                   ELSE [original |-> 0, tier |-> "none"] :
                   best_match \in
                       {_find_matching_message_by_content(msgs, scan.quoted_content, msg)}})
        ELSE Only({IF best_match # 0
                   THEN [original |-> best_match, tier |-> "fragments"]
                   ELSE [original |-> 0, tier |-> "none"] :
                   best_match \in {BestMatch(msgs, scan.parts, msg)}}) :
        scan \in {FragmentScan(MetaMap(msg.media_item_id), 0, <<>>, <<>>)}})

\* step 2 for one message of the list
ResolveReply(msgs, m) ==
    IF IsReplyTarget(m)
    THEN Only({IF r.original # 0
               THEN [m EXCEPT !.quoted_text =
                        TextQuote(TruncateOriginal(msgs[r.original].content))]
               ELSE m : r \in {ReplyMatch(msgs, m)}})
    ELSE m

(***************************************************************************)
(* _get_conversation_messages as a state machine                           *)
(***************************************************************************)
\* system messages the query leaves out
ExcludedTypes == {6, 10, 15}

\* the Z_PKs the WHERE clause keeps (every row of the model's table belongs
\* to the conversation asked for)
KeptRows(table) == {k \in DOMAIN table : table[k].ZMESSAGETYPE \notin ExcludedTypes}

\* ORDER BY ZMESSAGEDATE ASC / DESC: any order of the kept rows that is
\* sorted by date; rows of equal date come in either order
Ordered(table, descending) ==
    LET keep == KeptRows(table) IN
    {o \in [1..Cardinality(keep) -> keep] :
        /\ \A i, j \in 1..Cardinality(keep) : i # j => o[i] # o[j]
        /\ \A i, j \in 1..Cardinality(keep) :
               i < j => IF descending
                        THEN table[o[i]].ZMESSAGEDATE >= table[o[j]].ZMESSAGEDATE
                        ELSE table[o[i]].ZMESSAGEDATE <= table[o[j]].ZMESSAGEDATE}

\* LIMIT n, added to the query only when limit is truthy
Limited(o, n) == IF n # 0 THEN SubSeq(o, 1, Min(n, Len(o))) ELSE o

\* the fetched order kept as the query gave it
NotReversed(o) == o

\* list(reversed(rows))
Reversed(o) == [k \in 1..Len(o) |-> o[Len(o) + 1 - k]]

\* lines 252-263: what the loop over rows iterates on
FetchedRows(table, n, descending) ==
    {IF descending THEN Reversed(Limited(o, n)) ELSE Limited(o, n) :
        o \in Ordered(table, descending)}

\* the assembler has not been called
AsmIdle ==
    /\ db = <<>> /\ limit = 0 /\ recent = FALSE
    /\ pc = "idle" /\ rows = <<>> /\ nextRow = 1
    /\ messages = <<>> /\ returned = <<>> /\ raisedRow = 0 /\ selected = <<>>

\* the scanning machine is not running
ScanIdle ==
    /\ scanBlob = <<>> /\ scanLoop = "none" /\ scanPos = 0
    /\ scanAcc = <<>> /\ scanPc = "idle" /\ scanRet = NoQuote /\ scanSteps = 0

\* get_group_unique_initials has not been called
IniIdle ==
    /\ member_data = <<>> /\ conflicts = <<>> /\ initials_map = <<>> /\ iniPc = "idle"

\* no export of a group conversation is under way
GrpIdle ==
    /\ _group_initials_cache = <<>> /\ computations = <<>>
    /\ grpCall = <<>> /\ grpOps = 0

\* the mood analyzer has not been called
MoodIdle ==
    moodMessages = <<>> /\ moodArg = <<>> /\ moodRuns = <<>>

\* the formatter has not been called
FmtIdle ==
    fmtPc = "idle" /\ output = <<>>

\* no exporter is being constructed
DbIdle ==
    dbEnv = <<>> /\ dbMgr = <<>>

\* a call on table t with the given arguments, about to run its query
AsmCall(t, n, descending) ==
    /\ db = t /\ limit = n /\ recent = descending
    /\ pc = "fetch" /\ rows = <<>> /\ nextRow = 1
    /\ messages = <<>> /\ returned = <<>> /\ raisedRow = 0 /\ selected = <<>>
    /\ ScanIdle
    /\ IniIdle
    /\ GrpIdle
    /\ MoodIdle
    /\ FmtIdle
    /\ DbIdle

\* a call that goes on with the list the exporter holds
MessagesKeptAtStart(msgs) == msgs

\* line 224: self.messages = []
MessagesAtStart(msgs) == <<>>

\* lines 224-263: self.messages = [], the query, the in-memory reversal
FetchRows ==
    /\ pc = "fetch"
    /\ rows' \in FetchedRows(db, limit, recent)
    /\ messages' = MessagesAtStart(messages)
    /\ nextRow' = 1
    /\ pc' = "rows"
    /\ UNCHANGED <<db, limit, recent, returned, raisedRow, selected, nonAsmVars>>

\* one pass of the loop of lines 266-267 that raises nothing
ProcessRow ==
    /\ pc = "rows"
    /\ nextRow <= Len(rows)
    /\ ~RowRaises(db[rows[nextRow]])
    /\ messages' = Append(messages, _process_message_row(db, rows[nextRow]))
    /\ nextRow' = nextRow + 1
    /\ UNCHANGED <<db, limit, recent, pc, rows, returned, raisedRow, selected, nonAsmVars>>

\* _process_message_row raises: nothing catches it before the except of
\* lines 274-276, which returns []
ProcessRowRaises ==
    /\ pc = "rows"
    /\ nextRow <= Len(rows)
    /\ RowRaises(db[rows[nextRow]])
    /\ raisedRow' = rows[nextRow]
    /\ returned' = <<>>
    /\ pc' = "done"
    /\ UNCHANGED <<db, limit, recent, rows, nextRow, messages, selected, nonAsmVars>>

\* _post_process_messages, step 1
ResolveParentQuotes ==
    /\ pc = "rows"
    /\ nextRow > Len(rows)
    /\ messages' = [k \in 1..Len(messages) |-> ResolveParentQuote(messages, messages[k])]
    /\ pc' = "replies"
    /\ UNCHANGED <<db, limit, recent, rows, nextRow, returned, raisedRow, selected, nonAsmVars>>

\* _post_process_messages, step 2: _parse_metadata_replies on the targets
ParseMetadataReplies ==
    /\ pc = "replies"
    /\ messages' = [k \in 1..Len(messages) |-> ResolveReply(messages, messages[k])]
    /\ selected' = [k \in 1..Len(messages) |->
                       IF IsReplyTarget(messages[k])
                       THEN ReplyMatch(messages, messages[k]).original
                       ELSE 0]
    /\ pc' = "return"
    /\ UNCHANGED <<db, limit, recent, rows, nextRow, returned, raisedRow, nonAsmVars>>

\* line 272: return self.messages
ReturnMessages ==
    /\ pc = "return"
    /\ returned' = messages
    /\ pc' = "done"
    /\ UNCHANGED <<db, limit, recent, rows, nextRow, messages, raisedRow, selected, nonAsmVars>>

Next ==
    \/ FetchRows
    \/ ProcessRow
    \/ ProcessRowRaises
    \/ ResolveParentQuotes
    \/ ParseMetadataReplies
    \/ ReturnMessages

(***************************************************************************)
(* Spec: conversations whose rows differ in content, parent reference and  *)
(* media item                                                              *)
(***************************************************************************)
MaxQuoteRows == 2

\* no parent, the first row of the table, a row that is not in the table
ParentRefs == {0, 1, 9}

\* media items: none, an image file, a plain quote, a forward hash
QuoteMedia == {0, 1, 2, 3}

\* rows from the contact; a row with an image is of type 1, the last row
\* has a text in ZFLAGS
QuoteRows ==
    {MessageRow(0, text, FALSE, IF media = 1 THEN 1 ELSE 0, parent, IntFlags(0), media, <<>>) :
        text \in {<<>>, HelloText, LongText}, parent \in ParentRefs, media \in QuoteMedia}
    \cup {MessageRow(0, HelloText, FALSE, 0, 0, TextFlags, 0, <<>>)}

\* rows one minute apart, in Z_PK order
Init ==
    \E n \in 1..MaxQuoteRows, lim \in {0, 1} : \E kinds \in [1..n -> QuoteRows] :
        AsmCall([k \in 1..n |-> [kinds[k] EXCEPT !.ZMESSAGEDATE = 1000 + 60 * k]],
                lim, FALSE)

Spec == Init /\ [][Next]_vars

(***************************************************************************)
(* SpecOrder: conversations whose rows differ in date and type, fetched in *)
(* either direction, with and without a limit                              *)
(***************************************************************************)
MaxRows == 3
MaxLimit == 2

OrderDates == {999, 1000, 1060}

\* plain and system (type 6) messages of the same content; the last row
\* has a text in ZFLAGS
OrderRows ==
    {MessageRow(date, HelloText, FALSE, type, 0, IntFlags(0), 0, <<>>) :
        date \in OrderDates, type \in {0, 6}}
    \cup {MessageRow(1000, HelloText, FALSE, 0, 0, TextFlags, 0, <<>>)}

InitOrder ==
    \E n \in 1..MaxRows, lim \in 0..MaxLimit, descending \in BOOLEAN :
        \E t \in [1..n -> OrderRows] : AsmCall(t, lim, descending)

SpecOrder == InitOrder /\ [][Next]_vars

(***************************************************************************)
(* SpecForward: conversations of messages forwarded (flags 0x180) or not,  *)
(* of two contents and two dates                                           *)
(***************************************************************************)
ForwardRows ==
    {MessageRow(date, text, FALSE, 0, 0, IntFlags(flags), 0, <<>>) :
        date \in {1000, 1060}, text \in {HelloText, LongText}, flags \in {0, 384}}
    \cup {MessageRow(1000, HelloText, FALSE, 0, 0, TextFlags, 0, <<>>)}

InitForward ==
    \E n \in 1..MaxRows : \E t \in [1..n -> ForwardRows] : AsmCall(t, 0, FALSE)

SpecForward == InitForward /\ [][Next]_vars

(***************************************************************************)
(* SpecMatch: conversations of long messages and of replies whose media    *)
(* item holds fragments or a quoted text, from both sides, at dates around *)
(* the 48 hours before the replies                                         *)
(***************************************************************************)
MaxMatchRows == 3

\* the date of the replies: 48 hours after the date 1000
ReplyDate == 1000 + 48 * 3600

\* 48 hours and 1 second, 48 hours, 47 hours 59 minutes before the replies,
\* and the date of the replies itself
OriginalDates == {ReplyDate - 172801, ReplyDate - 172800, ReplyDate - 172740, ReplyDate}

\* media items 4, 5, 6: fragments, a quoted text, a reworded quoted text
ReplyMedia == {4, 5, 6}

MatchRows ==
    {MessageRow(date, LongText, from_me, 0, 0, IntFlags(0), 0, <<>>) :
        date \in OriginalDates, from_me \in BOOLEAN}
    \cup {MessageRow(ReplyDate, HelloText, from_me, 0, 0, IntFlags(0), media, <<>>) :
        from_me \in BOOLEAN, media \in ReplyMedia}
    \cup {MessageRow(ReplyDate, HelloText, FALSE, 0, 0, TextFlags, 0, <<>>)}

InitMatch ==
    \E n \in 1..MaxMatchRows : \E t \in [1..n -> MatchRows] : AsmCall(t, 0, FALSE)

SpecMatch == InitMatch /\ [][Next]_vars

(***************************************************************************)
(* get_group_unique_initials (participants.py), from member_data on        *)
(***************************************************************************)
UpperChar(c) == IF IsLower(c) THEN c - 32 ELSE c
LowerChar(c) == IF IsUpper(c) THEN c + 32 ELSE c

\* str.capitalize(): the first character upper-cased, the others lowered
Capitalize(s) == [k \in 1..Len(s) |-> IF k = 1 THEN UpperChar(s[k]) ELSE LowerChar(s[k])]

\* the first character of every word of the last name, case kept
get_last_name_initials(last_name_full) ==
    [k \in 1..Len(Split(last_name_full)) |-> Split(last_name_full)[k][1]]

\* lines 264-274: one letter of the first name and the last name's
\* initials, or the first two letters of a single name
BaseInitials(name) ==
    LET parts == Split(name) IN
    IF Len(parts) >= 2
    THEN <<UpperChar(parts[1][1])>> \o get_last_name_initials(Join(Tail(parts)))
    ELSE Capitalize(Slice(name, 0, Min(2, Len(name))))

\* lines 288-297: two letters of the first name and the last name's
\* initials; a single name keeps its first two letters
ResolvedInitials(name) ==
    LET parts == Split(name) IN
    IF Len(parts) >= 2
    THEN Capitalize(Slice(parts[1], 0, 2)) \o get_last_name_initials(Join(Tail(parts)))
    ELSE Capitalize(Slice(name, 0, Min(2, Len(name))))

MaxMembers == 3

MemberNames ==
    {S("Jean Dupont"), S("Jeanne Dubois"), S("Paul Martin"), S("Anna Le Borgne"),
     S("Jean"), S("Jeanne"), S("Paul")}

InitInitials ==
    /\ \E n \in 1..MaxMembers : member_data \in [1..n -> MemberNames]
    /\ conflicts = <<>>
    /\ initials_map = <<>>
    /\ iniPc = "group"
    /\ ScanIdle
    /\ AsmIdle
    /\ GrpIdle
    /\ MoodIdle
    /\ FmtIdle
    /\ DbIdle

\* first pass (lines 260-278): the members under each base label
GroupByBaseInitials ==
    /\ iniPc = "group"
    /\ conflicts' = [b \in {BaseInitials(member_data[j]) : j \in DOMAIN member_data} |->
                        {j \in DOMAIN member_data : BaseInitials(member_data[j]) = b}]
    /\ iniPc' = "resolve"
    /\ UNCHANGED <<member_data, initials_map, nonIniVars>>

\* second pass (lines 281-301): a label with one holder is kept, the holders
\* of a shared label get their resolved label
ResolveConflicts ==
    /\ iniPc = "resolve"
    /\ initials_map' =
           [j \in DOMAIN member_data |->
               IF Cardinality(conflicts[BaseInitials(member_data[j])]) = 1
               THEN BaseInitials(member_data[j])
               ELSE ResolvedInitials(member_data[j])]
    /\ iniPc' = "done"
    /\ UNCHANGED <<member_data, conflicts, nonIniVars>>

NextInitials ==
    \/ GroupByBaseInitials
    \/ ResolveConflicts

SpecInitials == InitInitials /\ [][NextInitials]_vars

(***************************************************************************)
(* SpecExtract: _extract_quoted_text on the metadata of a media item that  *)
(* holds one tag-1 record                                                  *)
(***************************************************************************)
\* first tokens: lower-case letters, upper-case letters or digits, of
\* lengths around the 2 and 24 of the shape
FirstTokens == {Fill(c, n) : c \in {97, 66, 55}, n \in {1, 2, 8, 24, 25}}

\* second tokens: letters, digits or braces, of lengths around 2 and 48
SecondTokens == {Fill(c, n) : c \in {122, 51, 123}, n \in {1, 2, 8, 48, 49}}

\* an apostrophe, a backtick, a space, two apostrophes
Separators == {<<39>>, <<96>>, <<32>>, <<39, 39>>}

\* nothing, or characters the sanitizer removes
Paddings == {<<>>, S(" !!")}

ExtractTexts ==
    {first \o sep \o second \o pad :
        first \in FirstTokens, sep \in Separators, second \in SecondTokens, pad \in Paddings}
    \cup {S("AB12'xyZ3"), S("AB12cd34'xyZ3"), S("hello there friend"),
          S("AB12 'xyZ3 !!"), S("it's a lovely day"), S("It's a lovely day")}

\* the record 0x0a, length, text
Tag1Record(text) == <<10, Len(text)>> \o text

InitExtract ==
    /\ \E text \in ExtractTexts : scanBlob = Tag1Record(text)
    /\ scanLoop = "extract"
    /\ scanPos = 0
    /\ scanAcc = <<>>
    /\ scanPc = "call"
    /\ scanRet = NoQuote
    /\ scanSteps = 0
    /\ AsmIdle
    /\ IniIdle
    /\ GrpIdle
    /\ MoodIdle
    /\ FmtIdle
    /\ DbIdle

\* lines 440-513 on the blob
ExtractQuotedText ==
    /\ scanPc = "call" /\ scanLoop = "extract"
    /\ scanRet' = ExtractFromBlob(scanBlob)
    /\ scanPc' = "returned"
    /\ UNCHANGED <<scanBlob, scanLoop, scanPos, scanAcc, scanSteps, nonScanVars>>

NextExtract == ExtractQuotedText

SpecExtract == InitExtract /\ [][NextExtract]_vars

(***************************************************************************)
(* SpecReact: a conversation whose first row has a receipt blob            *)
(***************************************************************************)
\* nothing; U+1F602; F0 9F followed by two bytes that continue nothing; a
\* skin tone modifier (U+1F3FD); U+2764; E2 9D followed by a byte that
\* continues nothing; U+FE0F; five bytes whose hex holds F09F9882 from its
\* second digit on; F0 9F followed by U+1F602, where the candidate F09FF09F
\* covers the first half of the emoji
ReceiptChunks ==
    {<<>>, <<240, 159, 152, 130>>, <<240, 159, 65, 65>>, <<240, 159, 143, 189>>,
     <<226, 157, 164>>, <<226, 157, 65>>, <<239, 184, 143>>, <<15, 9, 249, 136, 32>>,
     <<240, 159, 240, 159, 152, 130>>}

ReceiptBlobs == {a \o b \o c : a \in ReceiptChunks, b \in ReceiptChunks, c \in ReceiptChunks}

\* the rows after the first: none, a plain row, a row with a text in ZFLAGS
ReactTails ==
    {<<>>,
     <<MessageRow(1060, HelloText, FALSE, 0, 0, IntFlags(0), 0, <<>>)>>,
     <<MessageRow(1060, HelloText, FALSE, 0, 0, TextFlags, 0, <<>>)>>}

InitReact ==
    \E receipt \in ReceiptBlobs, tail \in ReactTails :
        AsmCall(<<MessageRow(1000, HelloText, TRUE, 0, 0, IntFlags(0), 0, receipt)>> \o tail,
                0, FALSE)

SpecReact == InitReact /\ [][Next]_vars

(***************************************************************************)
(* The scanning loops as a state machine: one action per loop iteration    *)
(***************************************************************************)
MaxHead == 3
FillLen == 12

\* 0x0a, 0x12, 0x2a: tags 1, 2, 5 with wire type 2; 11 and 0x8b: a length
\* of 11 as one byte and as the first byte of a varint; 0xff: a length byte
\* above 127 with every bit set; 0 and 'A': payload
ScanBytes == {0, 10, 11, 18, 42, 65, 139, 255}
FillBytes == {65, 255}

\* blobs: every head of at most MaxHead bytes, alone or followed by a run
\* long enough to hold a field the scanners accept
ScanBlobs ==
    {h \o Fill(f, n) :
        h \in UNION {[1..k -> ScanBytes] : k \in 0..MaxHead},
        f \in FillBytes,
        n \in {0, FillLen}}

ScanLoops == {"tag1", "fallback", "fragments", "varint"}

EmptyAcc ==
    [best |-> <<>>, parts |-> <<>>, quoted_content |-> <<>>,
     groups |-> <<>>, shift |-> 0, brk |-> FALSE]

InitScan ==
    /\ scanBlob \in ScanBlobs
    /\ scanLoop \in ScanLoops
    /\ scanPos \in (IF scanLoop = "varint" THEN {0, 1} ELSE {0})
    /\ scanAcc = EmptyAcc
    /\ scanPc = "loop"
    /\ scanRet = NoQuote
    /\ scanSteps = 0
    /\ AsmIdle
    /\ IniIdle
    /\ GrpIdle
    /\ MoodIdle
    /\ FmtIdle
    /\ DbIdle

\* one pass through the body of the tag-1 loop
Tag1Iteration ==
    /\ scanPc = "loop" /\ scanLoop = "tag1"
    /\ Tag1Continues(scanBlob, scanPos)
    /\ LET r == Tag1Body(scanBlob, scanPos) IN
       /\ scanPos' = r.i
       /\ scanPc' = IF r.exc \/ r.returned THEN "returned" ELSE "loop"
       /\ scanRet' = IF r.exc THEN NoQuote ELSE r.ret
    /\ scanSteps' = scanSteps + 1
    /\ UNCHANGED <<scanBlob, scanLoop, scanAcc, nonScanVars>>

\* one pass through the body of the fallback loop
FallbackIteration ==
    /\ scanPc = "loop" /\ scanLoop = "fallback"
    /\ FallbackContinues(scanBlob, scanPos)
    /\ LET r == FallbackBody(scanBlob, scanPos, scanAcc.best) IN
       /\ scanPos' = r.i
       /\ scanAcc' = [scanAcc EXCEPT !.best = r.best]
       /\ scanPc' = IF r.exc THEN "returned" ELSE "loop"
    /\ scanSteps' = scanSteps + 1
    /\ UNCHANGED <<scanBlob, scanLoop, scanRet, nonScanVars>>

\* one pass through the body of the fragment loop; nothing catches an
\* exception here, it reaches the caller of _parse_metadata_replies
FragmentIteration ==
    /\ scanPc = "loop" /\ scanLoop = "fragments"
    /\ FragmentContinues(scanBlob, scanPos)
    /\ LET r == FragmentBody(scanBlob, scanPos, scanAcc.parts, scanAcc.quoted_content) IN
       /\ scanPos' = r.i
       /\ scanAcc' = [scanAcc EXCEPT !.parts = r.parts,
                                     !.quoted_content = r.quoted_content]
       /\ scanPc' = IF r.exc THEN "raised" ELSE "loop"
    /\ scanSteps' = scanSteps + 1
    /\ UNCHANGED <<scanBlob, scanLoop, scanRet, nonScanVars>>

\* one pass through the body of _decode_varint's loop
VarintIteration ==
    /\ scanPc = "loop" /\ scanLoop = "varint"
    /\ VarintContinues(scanBlob, [groups |-> scanAcc.groups, shift |-> scanAcc.shift,
                                  pos |-> scanPos, brk |-> scanAcc.brk])
    /\ LET r == VarintBody(scanBlob, [groups |-> scanAcc.groups, shift |-> scanAcc.shift,
                                      pos |-> scanPos, brk |-> scanAcc.brk]) IN
       /\ scanPos' = r.pos
       /\ scanAcc' = [scanAcc EXCEPT !.groups = r.groups, !.shift = r.shift,
                                     !.brk = r.brk]
    /\ scanSteps' = scanSteps + 1
    /\ UNCHANGED <<scanBlob, scanLoop, scanPc, scanRet, nonScanVars>>

\* the loop condition of the running loop
LoopContinues ==
    IF scanLoop = "tag1" THEN Tag1Continues(scanBlob, scanPos)
    ELSE IF scanLoop = "fallback" THEN FallbackContinues(scanBlob, scanPos)
    ELSE IF scanLoop = "fragments" THEN FragmentContinues(scanBlob, scanPos)
    ELSE VarintContinues(scanBlob, [groups |-> scanAcc.groups, shift |-> scanAcc.shift,
                                    pos |-> scanPos, brk |-> scanAcc.brk])

\* the loop condition fails: the code after the loop runs
LoopExit ==
    /\ scanPc = "loop"
    /\ ~LoopContinues
    /\ scanPc' = "returned"
    /\ scanRet' = IF scanLoop = "fallback" /\ scanAcc.best # <<>>
                  THEN TextQuote(TruncateQuote(scanAcc.best))
                  ELSE NoQuote
    /\ UNCHANGED <<scanBlob, scanLoop, scanPos, scanAcc, scanSteps, nonScanVars>>

NextScan ==
    \/ Tag1Iteration
    \/ FallbackIteration
    \/ FragmentIteration
    \/ VarintIteration
    \/ LoopExit

SpecScan == InitScan /\ [][NextScan]_vars

\* a loop whose condition holds takes its next iteration
SpecScanFair == SpecScan /\ WF_vars(NextScan)

(***************************************************************************)
(* C2                                                                      *)
(***************************************************************************)
\* C2: in each of the four blob-scanning loops (tag-1 scan, fallback scan,
\* fragment scan, _decode_varint), for every blob: no exception escapes to
\* the caller; an iteration that stays in the loop started at a position
\* inside the blob and leaves the position strictly larger; and the loop
\* body runs at most len(blob) times before the loop ends.
C2_ScanLoopsAdvanceAndReturn ==
    /\ [][scanPc = "loop" =>
            /\ scanPc' # "raised"
            /\ (scanPc' = "loop" =>
                    scanPos < Len(scanBlob) /\ scanPos' > scanPos)]_vars
    /\ [](scanPc # "raised" /\ scanSteps <= Len(scanBlob))

\* a fragment scan that met a declared length reaching past the end of the
\* blob, behind a multi-byte length (a byte above 127), and returned
C2_Witness ==
    /\ scanLoop = "fragments"
    /\ scanPc = "returned"
    /\ Len(scanBlob) >= 3
    /\ scanBlob[1] = 42 /\ scanBlob[2] = 255
    /\ scanPos > Len(scanBlob)

(***************************************************************************)
(* C1                                                                      *)
(***************************************************************************)
\* the first 50 characters of a content, '...' after them when it is longer
C1_Prefix(content) ==
    IF Len(content) > 50 THEN SubSeq(content, 1, 50) \o <<46, 46, 46>> ELSE content

\* the returned message at position k has a parent reference, and the
\* parent is in the returned batch with a non-empty content
C1_HasParentInBatch(k) ==
    /\ returned[k].parent_message_id # 0
    /\ \E p \in 1..Len(returned) :
           /\ returned[p].message_id = returned[k].parent_message_id
           /\ returned[p].content # <<>>

C1_ParentContent(k) ==
    returned[CHOOSE p \in 1..Len(returned) :
                 returned[p].message_id = returned[k].parent_message_id].content

\* what the media items give the message at position k: the regular quote
\* extracted from its own media item or, when that yields nothing, from its
\* parent's; a forward marker counts as nothing
C1_MetadataQuote(k) ==
    LET row == db[returned[k].message_id]
        own == IF row.ZMEDIAITEM # 0 THEN _extract_quoted_text(row.ZMEDIAITEM) ELSE NoQuote
        parent_media == IF row.ZPARENTMESSAGE \in DOMAIN db
                        THEN db[row.ZPARENTMESSAGE].ZMEDIAITEM ELSE 0
        found == IF own.kind = "none" /\ parent_media # 0
                 THEN _extract_quoted_text(parent_media)
                 ELSE own
    IN IF found.kind = "text" /\ found.text # <<>> THEN found ELSE NoQuote

C3_RowFailureKeepsBatch ==
    pc = "done" =>
        /\ Len(returned) = Len(rows)
        /\ \A k \in 1..Len(returned) :
               /\ returned[k].message_id = rows[k]
               /\ (rows[k] = raisedRow =>
                       /\ returned[k].sender_name = <<>>
                       /\ returned[k].quoted_text = NoQuote
                       /\ returned[k].reaction_emoji = <<>>
                       /\ ~returned[k].media_info.present)

(***************************************************************************)
(* C9                                                                      *)
(***************************************************************************)
\* C9: no message, in self.messages or in the returned list, that has a
\* parent reference holds a forward marker as its quoted_text
C9_NoForwardMarkerWithParent ==
    /\ \A k \in 1..Len(messages) :
           messages[k].quoted_text.kind = "forward" => messages[k].parent_message_id = 0
    /\ \A k \in 1..Len(returned) :
           returned[k].quoted_text.kind = "forward" => returned[k].parent_message_id = 0

\* a returned message with a parent reference to a row outside the table and
\* a media item whose metadata is a forward hash: nothing is quoted
C9_Witness ==
    /\ pc = "done"
    /\ \E k \in 1..Len(returned) :
           /\ returned[k].parent_message_id = 9
           /\ returned[k].media_item_id = 3
           /\ _extract_quoted_text(3).kind = "forward"
           /\ returned[k].quoted_text = NoQuote

(***************************************************************************)
(* C4                                                                      *)
(***************************************************************************)
\* C4 as stated: the returned list holds no forwarded message after a
\* message of the same content and date, and every other fetched row is in
\* it exactly once
C4_NoForwardedDuplicate ==
    pc = "done" /\ raisedRow = 0 =>
        /\ \A k \in 1..Len(returned) :
               returned[k].is_forwarded =>
                   \A j \in 1..(k - 1) :
                       ~(/\ returned[j].content = returned[k].content
                         /\ returned[j].date = returned[k].date)
        /\ \A k \in 1..Len(rows) :
               (\/ ~ForwardBits(FlagsOrZero(db[rows[k]].ZFLAGS))
                \/ \A j \in 1..(k - 1) :
                       ~(/\ db[rows[j]].ZTEXT = db[rows[k]].ZTEXT
                         /\ db[rows[j]].ZMESSAGEDATE = db[rows[k]].ZMESSAGEDATE))
               => Cardinality({i \in 1..Len(returned) : returned[i].message_id = rows[k]}) = 1

(***************************************************************************)
(* C7                                                                      *)
(***************************************************************************)
\* C7: whenever the second pass selects an original for a reply, by
\* fragments or by content, the original is from the other side, its date
\* is strictly earlier than the reply's, and at most 48 hours (172800
\* seconds) earlier; originals exactly 48 hours and 47 hours 59 minutes
\* earlier are selected when nothing closer matches
C7_OriginalOtherSideWithin48h ==
    /\ \A k \in 1..Len(selected) :
           selected[k] # 0 =>
               /\ messages[selected[k]].is_from_me # messages[k].is_from_me
               /\ messages[selected[k]].date < messages[k].date
               /\ messages[k].date - messages[selected[k]].date <= 172800
    /\ pc = "done" /\ raisedRow = 0 =>
           \A k \in 1..Len(returned) :
               (/\ returned[k].media_item_id \in ReplyMedia
                /\ \E j \in 1..Len(returned) :
                       /\ returned[j].content = LongText
                       /\ returned[j].is_from_me # returned[k].is_from_me
                       /\ returned[k].date - returned[j].date \in {172740, 172800})
               => selected[k] # 0

\* a reply with fragments that quotes the original sent exactly 48 hours
\* before it, while an original 48 hours and 1 second before it was there
C7_Witness ==
    /\ pc = "done"
    /\ \E k, j, h \in 1..Len(returned) :
           /\ returned[k].media_item_id = 4
           /\ selected[k] = j
           /\ returned[k].date - returned[j].date = 172800
           /\ returned[h].content = LongText
           /\ returned[h].is_from_me # returned[k].is_from_me
           /\ returned[k].date - returned[h].date = 172801
           /\ returned[k].quoted_text = TextQuote(LongText)

(***************************************************************************)
(* C8                                                                      *)
(***************************************************************************)
\* the rows the query keeps that are not in the returned list
C8_LeftOut ==
    {k \in DOMAIN db : db[k].ZMESSAGETYPE \notin {6, 10, 15}}
        \ {returned[i].message_id : i \in 1..Len(returned)}

\* C8: the returned list is in non-decreasing date order whatever the
\* direction; when the call runs to its return statement the list holds,
\* each once, all the rows of the conversation or (with a limit N) N of
\* them, which with recent=False are the oldest, and with recent=True the
\* newest
C8_ReturnedChronological ==
    /\ \A i, j \in 1..Len(returned) : i < j => returned[i].date <= returned[j].date
    /\ pc = "done" /\ raisedRow = 0 =>
           /\ \A i, j \in 1..Len(returned) :
                  i # j => returned[i].message_id # returned[j].message_id
           /\ \A i \in 1..Len(returned) :
                  /\ returned[i].message_id \in DOMAIN db
                  /\ db[returned[i].message_id].ZMESSAGETYPE \notin {6, 10, 15}
                  /\ returned[i].date = db[returned[i].message_id].ZMESSAGEDATE + 978307200
           /\ IF limit = 0
              THEN C8_LeftOut = {}
              ELSE /\ (Len(returned) < limit => C8_LeftOut = {})
                   /\ Len(returned) <= limit
                   /\ \A k \in C8_LeftOut : \A i \in 1..Len(returned) :
                          IF recent
                          THEN db[k].ZMESSAGEDATE <= db[returned[i].message_id].ZMESSAGEDATE
                          ELSE db[k].ZMESSAGEDATE >= db[returned[i].message_id].ZMESSAGEDATE

\* recent=True with limit 2 on three rows of three dates: the two newest
\* come back, the older of them first
C8_Witness ==
    /\ pc = "done" /\ recent /\ limit = 2
    /\ Len(db) = 3
    /\ Len(returned) = 2
    /\ returned[1].date = 1000 + 978307200
    /\ returned[2].date = 1060 + 978307200
    /\ \E k \in DOMAIN db : db[k].ZMESSAGEDATE = 999

(***************************************************************************)
(* C5                                                                      *)
(***************************************************************************)
\* C5 as stated: get_group_unique_initials gives members of different names
\* different labels; in particular 'Jean Dupont' and 'Jeanne Dubois' get
\* different labels of at least 3 characters
C5_InitialsInjective ==
    iniPc = "done" =>
        \A i, j \in DOMAIN initials_map :
            member_data[i] # member_data[j] =>
                /\ initials_map[i] # initials_map[j]
                /\ (member_data[i] = S("Jean Dupont") /\ member_data[j] = S("Jeanne Dubois")
                        => Len(initials_map[i]) >= 3 /\ Len(initials_map[j]) >= 3)

(***************************************************************************)
(* C6                                                                      *)
(***************************************************************************)
\* the text of the tag-1 record the blob holds
C6_Text == SubSeq(scanBlob, 3, Len(scanBlob))

\* the text without the characters outside [A-Za-z0-9'`{}]
C6_Sanitized ==
    SelectSeq(C6_Text, LAMBDA c :
        \/ (c >= 48 /\ c <= 57) \/ (c >= 65 /\ c <= 90) \/ (c >= 97 /\ c <= 122)
        \/ c \in {39, 96, 123, 125})

C6_Alnum(c) == (c >= 48 /\ c <= 57) \/ (c >= 65 /\ c <= 90) \/ (c >= 97 /\ c <= 122)

\* a token of 2 to 24 alphanumerics, an apostrophe or backtick, a token of
\* 2 to 48 alphanumerics or braces, and nothing else
C6_Shape ==
    \E p \in 2..24 :
        /\ Len(C6_Sanitized) >= p + 3 /\ Len(C6_Sanitized) <= p + 49
        /\ \A k \in 1..p : C6_Alnum(C6_Sanitized[k])
        /\ C6_Sanitized[p + 1] \in {39, 96}
        /\ \A k \in (p + 2)..Len(C6_Sanitized) :
               C6_Alnum(C6_Sanitized[k]) \/ C6_Sanitized[k] \in {123, 125}

\* a digit, an upper-case letter or a brace
C6_Marked ==
    \E k \in 1..Len(C6_Sanitized) :
        \/ (C6_Sanitized[k] >= 48 /\ C6_Sanitized[k] <= 57)
        \/ (C6_Sanitized[k] >= 65 /\ C6_Sanitized[k] <= 90)
        \/ C6_Sanitized[k] \in {123, 125}

C10_Decodes(candidate) == DecodeStrict(FromHex(candidate)).ok

\* what the decoder is to return for a receipt: the text of the first
\* candidate, in the order the hex holds them, that decodes (with the
\* modifier that follows it), None when no candidate decodes
C10_Expected(receipt) ==
    LET hex == Hex(receipt)
        candidates == BaseMatches(hex)
        good == {k \in 1..Len(candidates) : C10_Decodes(candidates[k])}
    IN IF good = {} THEN <<>>
       ELSE LET first == CHOOSE k \in good : \A j \in good : k <= j IN
            DecodeStrict(FromHex(FullSequence(hex, candidates[first]))).text

\* C10: every processed row is emitted as a message whatever its receipt
\* holds, no row with a receipt makes the call raise, and the emitted
\* message's reaction is that of the first candidate that decodes, None when
\* none does
C10_FirstDecodableCandidate ==
    /\ pc = "rows" => Len(messages) = nextRow - 1
    /\ raisedRow # 0 => db[raisedRow].ZRECEIPTINFO = <<>>
    /\ \A k \in 1..Len(messages) :
           messages[k].reaction_emoji = C10_Expected(db[messages[k].message_id].ZRECEIPTINFO)

\* a receipt whose first candidate, F09F4141, does not decode and whose
\* second is U+1F602: the message is emitted with that emoji
C10_Witness ==
    \E k \in 1..Len(messages) :
        /\ db[messages[k].message_id].ZRECEIPTINFO = <<240, 159, 65, 65, 240, 159, 152, 130>>
        /\ ~C10_Decodes(<<15, 0, 9, 15, 4, 1, 4, 1>>)
        /\ messages[k].reaction_emoji = <<128514>>

(***************************************************************************)
(* C11                                                                     *)
(***************************************************************************)
\* where re.findall finds the F09F candidates from position p on
RECURSIVE C11_MatchStarts(_, _)
C11_MatchStarts(hex, p) ==
    LET at == {q \in p..(Len(hex) - 8) : Slice(hex, q, q + 4) = PrefixF09F} IN
    IF at = {} THEN <<>> ELSE <<Least(at)>> \o C11_MatchStarts(hex, Least(at) + 8)

\* the first candidate that decodes, taken where it was found, with the skin
\* tone modifier that follows it there, or alone when none follows
C11_Expected(receipt) ==
    LET hex == Hex(receipt)
        starts == C11_MatchStarts(hex, 0)
        good == {k \in 1..Len(starts) :
                    DecodeStrict(FromHex(Slice(hex, starts[k], starts[k] + 8))).ok}
    IN IF good = {} THEN <<>>
       ELSE LET at == starts[Least(good)] IN
            DecodeStrict(FromHex(Slice(hex, at, at + 8)
                                 \o SkinModifier(Slice(hex, at + 8, Len(hex))))).text

\* C11: for a receipt of the F09F family the reaction is the first decodable
\* base emoji together with the skin tone modifier that immediately follows
\* it in the hex, and the base alone when no modifier follows it
C11_ModifierAfterBase ==
    \A k \in 1..Len(messages) :
        ReactionFamily(Hex(db[messages[k].message_id].ZRECEIPTINFO)) = "F09F"
            => messages[k].reaction_emoji = C11_Expected(db[messages[k].message_id].ZRECEIPTINFO)

(***************************************************************************)
(* Group conversations: _decode_group_reactions (core.py) and the initials *)
(* cache of the ParticipantManager (participants.py).  A JID is a text.    *)
(***************************************************************************)
JidSuffix == S("@s.whatsapp.net")
Jid(phone) == phone \o JidSuffix

\* the literal 40732E77686174736170702E6E6574 of the pattern, as hex digits
JidSuffixHex ==
    <<4, 0, 7, 3, 2, 14, 7, 7, 6, 8, 6, 1, 7, 4, 7, 3, 6, 1, 7, 0, 7, 0, 2, 14, 6, 14, 6, 5, 7, 4>>

\* the literal 333 of the pattern
JidPrefixHex == <<3, 3, 3>>

\* where the suffix literal ends a match that starts at q: the pattern's
\* lazy middle takes at least one digit
JidSuffixAfter(hex, q) ==
    {r \in (q + 4)..(Len(hex) - 30) : Slice(hex, r, r + 30) = JidSuffixHex}

\* re.findall(r'333[0-9A-F]+?40732E77686174736170702E6E6574', hex_data) from
\* position p on: leftmost matches, each ending at the nearest suffix
RECURSIVE FindAllJid(_, _)
FindAllJid(hex, p) ==
    Only({LET at == {q \in p..(Len(h) - 34) :
                        /\ Slice(h, q, q + 3) = JidPrefixHex
                        /\ JidSuffixAfter(h, q) # {}} IN
          IF at = {} THEN <<>>
          ELSE Only({<<Slice(h, Least(at), r + 30)>> \o FindAllJid(h, r + 30) :
                     r \in {Least(JidSuffixAfter(h, Least(at)))}}) :
          h \in {hex}})

\* re.search(r'(\d+)@s\.whatsapp\.net', jid_raw).group(1): the digits of
\* the leftmost match, or <<>> when nothing matches
PhoneMatch(jid_raw) ==
    Only({LET ends == {e \in 1..(Len(t) - Len(JidSuffix)) :
                          /\ IsDigit(At(t, e - 1))
                          /\ Slice(t, e, e + Len(JidSuffix)) = JidSuffix}
              begins == {b \in 0..(Len(t) - 1) :
                          \E e \in ends : b < e /\ \A k \in b..(e - 1) : IsDigit(At(t, k))}
          IN IF begins = {} THEN <<>>
             ELSE Slice(t, Least(begins), Least({e \in ends : e > Least(begins)})) :
          t \in {jid_raw}})

\* lines 645-655 for one match: clean_jid, or <<>> when bytes.fromhex raises
\* (an odd number of digits) or the pattern finds no phone
CleanJid(jid_hex) ==
    IF Len(jid_hex) % 2 = 1 THEN <<>>
    ELSE Only({IF phone = <<>> THEN <<>> ELSE Jid(phone) :
               phone \in {PhoneMatch(DecodeIgnore(FromHex(jid_hex)))}})

\* dict.get(member_jid, "?") on an initials map
UnknownInitials == S("?")
MapGet(map, member_jid) ==
    IF member_jid \in DOMAIN map THEN map[member_jid] ELSE UnknownInitials

\* lines 641-655: the clean_jid of every match of the pattern in hex_data,
\* <<>> for a match the loop skips
CleanJids(hex_data) ==
    Only({[k \in 1..Len(jid_matches) |-> CleanJid(jid_matches[k])] :
          jid_matches \in {FindAllJid(hex_data, 0)}})

\* the loop of lines 644-660 from match k on, over the initials map the
\* lookups are answered from: the reactors list
RECURSIVE Reactors(_, _, _, _)
Reactors(map, clean_jids, k, reactors) ==
    IF k > Len(clean_jids) THEN reactors
    ELSE IF /\ clean_jids[k] # <<>>
            /\ MapGet(map, clean_jids[k]) # <<>>
            /\ \A n \in 1..Len(reactors) : reactors[n] # MapGet(map, clean_jids[k])
         THEN Reactors(map, clean_jids, k + 1, Append(reactors, MapGet(map, clean_jids[k])))
         ELSE Reactors(map, clean_jids, k + 1, reactors)

\* whether the loop calls get_group_initials_for_jid at least once
ReactorLookups(clean_jids) ==
    \E k \in 1..Len(clean_jids) : clean_jids[k] # <<>>

\* group_jid.split('-')[0]
BeforeDash(group_jid) ==
    Slice(group_jid, 0, Least({k \in 0..(Len(group_jid) - 1) : At(group_jid, k) = 45}))

HasDash(group_jid) == \E k \in 1..Len(group_jid) : group_jid[k] = 45

\* ';'.join of the pairs r:emoji
RECURSIVE JoinReactors(_, _)
JoinReactors(reactors, emoji) ==
    IF reactors = <<>> THEN <<>>
    ELSE reactors[1] \o <<58>> \o emoji
         \o (IF Len(reactors) > 1 THEN <<59>> \o JoinReactors(Tail(reactors), emoji) ELSE <<>>)

\* _decode_group_reactions from the matches' clean_jids on, over the
\* initials map of the group: '[' is 91, ']' is 93, ':' is 58, ';' is 59
_decode_group_reactions(map, clean_jids, emoji, group_jid) ==
    Only({IF reactors = <<>>
          THEN IF /\ HasDash(group_jid)
                  /\ MapGet(map, Jid(BeforeDash(group_jid))) # <<>>
                  /\ MapGet(map, Jid(BeforeDash(group_jid))) # UnknownInitials
               THEN <<91>> \o MapGet(map, Jid(BeforeDash(group_jid))) \o <<58>> \o emoji \o <<93>>
               ELSE emoji
          ELSE <<91>> \o JoinReactors(reactors, emoji) \o <<93>> :
          reactors \in {Reactors(map, clean_jids, 1, <<>>)}})

\* whether _decode_group_reactions calls get_group_initials_for_jid: in the
\* loop, or for the owner when the loop found nobody (the loop finds
\* somebody as soon as it looks up once, "?" being a label)
DecodeLooksUp(clean_jids, group_jid) ==
    \/ ReactorLookups(clean_jids)
    \/ HasDash(group_jid)

\* get_group_unique_initials from member_data on (keys are JIDs), as one
\* function: a base label with one holder is kept, the holders of a shared
\* label get their resolved label
get_group_unique_initials(data) ==
    [j \in DOMAIN data |->
        IF Cardinality({i \in DOMAIN data : BaseInitials(data[i]) = BaseInitials(data[j])}) = 1
        THEN BaseInitials(data[j])
        ELSE ResolvedInitials(data[j])]

(***************************************************************************)
(* SpecGroup: one export run over three group conversations               *)
(***************************************************************************)
GroupA == S("331-14@g.us")   \* its owner 331 is a member
GroupB == S("339-20@g.us")   \* its owner 339 has no name in the database
GroupC == S("12036@g.us")    \* no owner part

GroupJids == {GroupA, GroupB, GroupC}

\* member_data of each group after lines 188-243
GroupMemberData ==
    (GroupA :> ((Jid(S("331")) :> S("Jean Dupont")) @@ (Jid(S("332")) :> S("Jeanne Dubois"))
                @@ (Jid(S("335")) :> S("Paul Martin")) @@ (Jid(S("491")) :> S("Anna Le Borgne"))))
    @@ (GroupB :> ((Jid(S("331")) :> S("Paul Martin")) @@ (Jid(S("332")) :> S("Jean"))))
    @@ (GroupC :> ((Jid(S("331")) :> S("Anna Le Borgne")) @@ (Jid(S("491")) :> S("Paul"))))

\* what get_group_unique_initials returns for each group
GroupInitials ==
    [group_jid \in GroupJids |-> get_group_unique_initials(GroupMemberData[group_jid])]

\* the phones whose JIDs the receipts embed: members, a stranger (338) and
\* a number that does not begin with 33 (491)
EmbeddedPhones == {S("331"), S("332"), S("335"), S("338"), S("491")}

\* what precedes an embedded JID: a field header with the length byte
\* 18 (0x12), or with the length byte 19 (0x13), whose low digit is a 3
JidHeaders == {<<26, 18>>, <<26, 19>>}

GroupEmojis == {<<240, 159, 152, 130>>, <<226, 157, 164>>}

\* receipts: a header, an emoji, and no, one or two embedded JIDs
GroupReceipts ==
    {<<8, 1>> \o emoji : emoji \in GroupEmojis}
    \cup {<<8, 1>> \o emoji \o header \o Jid(phone) :
            emoji \in GroupEmojis, header \in JidHeaders, phone \in EmbeddedPhones}
    \cup {<<8, 1, 240, 159, 152, 130, 26, 18>> \o Jid(first) \o <<26, 18>> \o Jid(second) :
            first \in EmbeddedPhones, second \in EmbeddedPhones}

\* the hex-level work of _extract_reaction_emoji and _decode_group_reactions
\* on each receipt: the emoji and the clean_jids of the matches
ReceiptScan ==
    [receipt_info \in GroupReceipts |->
        [emoji |-> _extract_reaction_emoji(receipt_info),
         clean_jids |-> CleanJids(Hex(receipt_info))]]

MemberJids == {Jid(phone) : phone \in EmbeddedPhones}

MaxOps == 3

InitGroup ==
    /\ _group_initials_cache = <<>>
    /\ computations = [g \in GroupJids |-> 0]
    /\ grpCall = <<>>
    /\ grpOps = 0
    /\ ScanIdle
    /\ AsmIdle
    /\ IniIdle
    /\ MoodIdle
    /\ FmtIdle
    /\ DbIdle

\* get_group_initials_for_jid, lines 310-315: the cache after a lookup for
\* the group
CacheAfterLookup(cache, group_jid) ==
    IF group_jid \in DOMAIN cache THEN cache
    ELSE cache @@ (group_jid :> GroupInitials[group_jid])

\* how often get_group_unique_initials has run after a lookup for the group
ComputationsAfterLookup(cache, counts, group_jid) ==
    IF group_jid \in DOMAIN cache THEN counts
    ELSE [counts EXCEPT ![group_jid] = @ + 1]

\* _get_message_reactions of a message of a group conversation whose
\* receipt holds an emoji: _extract_reaction_emoji(receipt, True, group_jid)
GroupReaction(group_jid, receipt_info) ==
    /\ grpOps < MaxOps
    /\ ReceiptScan[receipt_info].emoji # <<>>
    /\ LET looks == DecodeLooksUp(ReceiptScan[receipt_info].clean_jids, group_jid)
           cache == IF looks THEN CacheAfterLookup(_group_initials_cache, group_jid)
                    ELSE _group_initials_cache
           map == IF group_jid \in DOMAIN cache THEN cache[group_jid] ELSE <<>>
       IN /\ _group_initials_cache' = cache
          /\ computations' = IF looks
                             THEN ComputationsAfterLookup(_group_initials_cache, computations, group_jid)
                             ELSE computations
          /\ grpCall' = [op |-> "reaction", group_jid |-> group_jid, arg |-> receipt_info,
                         ret |-> _decode_group_reactions(map, ReceiptScan[receipt_info].clean_jids,
                                     ReceiptScan[receipt_info].emoji, group_jid)]
    /\ grpOps' = grpOps + 1
    /\ UNCHANGED nonGrpVars

\* _get_group_member_name for a member without a contact name: the
\* initials of get_group_initials_for_jid
SenderNameFallback(group_jid, member_jid) ==
    /\ grpOps < MaxOps
    /\ _group_initials_cache' = CacheAfterLookup(_group_initials_cache, group_jid)
    /\ computations' = ComputationsAfterLookup(_group_initials_cache, computations, group_jid)
    /\ grpCall' = [op |-> "sender", group_jid |-> group_jid, arg |-> member_jid,
                   ret |-> MapGet(CacheAfterLookup(_group_initials_cache, group_jid)[group_jid],
                                  member_jid)]
    /\ grpOps' = grpOps + 1
    /\ UNCHANGED nonGrpVars

\* get_conversation_participants of a group (the header of the export):
\* line 72 calls get_group_unique_initials itself and reads the labels
\* from its result
ParticipantsHeader(group_jid) ==
    /\ grpOps < MaxOps
    /\ computations' = [computations EXCEPT ![group_jid] = @ + 1]
    /\ grpCall' = [op |-> "header", group_jid |-> group_jid, arg |-> <<>>,
                   ret |-> GroupInitials[group_jid]]
    /\ grpOps' = grpOps + 1
    /\ UNCHANGED <<_group_initials_cache, nonGrpVars>>

NextGroup ==
    \/ \E group_jid \in GroupJids, receipt_info \in GroupReceipts :
           GroupReaction(group_jid, receipt_info)
    \/ \E group_jid \in GroupJids, member_jid \in MemberJids :
           SenderNameFallback(group_jid, member_jid)
    \/ \E group_jid \in GroupJids : ParticipantsHeader(group_jid)

SpecGroup == InitGroup /\ [][NextGroup]_vars

\* the phones of the participant identifiers embedded in a receipt, in
\* order: the digits before every "@s.whatsapp.net" of the blob
C12_Embedded(receipt_info) ==
    LET ends == SelectSeq(Indices(receipt_info), LAMBDA e :
                    /\ e > 1
                    /\ IsDigit(receipt_info[e - 1])
                    /\ SubSeq(receipt_info, e, Min(Len(receipt_info), e + Len(JidSuffix) - 1)) = JidSuffix)
    IN [n \in 1..Len(ends) |->
           SubSeq(receipt_info,
                  Least({b \in 1..(ends[n] - 1) : \A k \in b..(ends[n] - 1) : IsDigit(receipt_info[k])}),
                  ends[n] - 1)]

\* the labels of the phones from the k-th on that are not in seen yet, in
\* first-seen order
RECURSIVE C12_Distinct(_, _, _, _)
C12_Distinct(group_jid, phones, k, seen) ==
    IF k > Len(phones) THEN seen
    ELSE LET label == MapGet(GroupInitials[group_jid], Jid(phones[k])) IN
         C12_Distinct(group_jid, phones, k + 1,
                      IF \E n \in 1..Len(seen) : seen[n] = label THEN seen ELSE Append(seen, label))

\* C12: in group mode the decoder's result for emoji E is, when participant
\* identifiers are embedded in the blob, '[' + the ';'-joined 'initials:E'
\* entries + ']' with one entry per distinct resolved initials in first-seen
\* order, and when none is embedded, the attribution '[initials:E]' to the
\* conversation owner
C12_GroupAttribution ==
    (grpCall # <<>> /\ grpCall.op = "reaction") =>
        LET E == _extract_reaction_emoji(grpCall.arg)
            phones == C12_Embedded(grpCall.arg)
        IN IF phones # <<>>
           THEN grpCall.ret = <<91>> \o JoinReactors(C12_Distinct(grpCall.group_jid, phones, 1, <<>>), E) \o <<93>>
           ELSE /\ Len(grpCall.ret) > Len(E)
                /\ grpCall.ret[1] = 91
                /\ HasDash(grpCall.group_jid) =>
                       grpCall.ret = <<91>> \o MapGet(GroupInitials[grpCall.group_jid],
                                                     Jid(BeforeDash(grpCall.group_jid)))
                                     \o <<58>> \o E \o <<93>>

\* the lookups of the run are answered from the map cached for their own
\* group, and the map cached for a group is that group's
C13_ServedFromOwnCache ==
    /\ \A group_jid \in DOMAIN _group_initials_cache :
           _group_initials_cache[group_jid] = GroupInitials[group_jid]
    /\ (grpCall # <<>> /\ grpCall.op = "sender") =>
           /\ grpCall.group_jid \in DOMAIN _group_initials_cache
           /\ grpCall.ret = MapGet(_group_initials_cache[grpCall.group_jid], grpCall.arg)
    /\ (grpCall # <<>> /\ grpCall.op = "header"
            /\ grpCall.group_jid \in DOMAIN _group_initials_cache) =>
           grpCall.ret = _group_initials_cache[grpCall.group_jid]

\* C13: within one export run the initials map of a group is computed at
\* most once, whatever operations follow the first computation (reaction
\* attribution, sender-name fallback, participants header), every lookup is
\* answered from the group's cached map with the same label for the same
\* member, and a map cached for one group never answers for another
C13_ComputedAtMostOnce ==
    /\ \A group_jid \in DOMAIN computations : computations[group_jid] <= 1
    /\ C13_ServedFromOwnCache

(***************************************************************************)
(* MoodAnalyzer (mood_analyzer.py).  A date is the record of the fields of *)
(* its text 'YYYY-MM-DD HH:MM:SS' (minutes and seconds are 00); a datetime *)
(* at midnight is its proleptic Gregorian ordinal (date.toordinal()).      *)
(***************************************************************************)
IsLeap(y) == (y % 4 = 0 /\ y % 100 # 0) \/ y % 400 = 0

DaysBeforeYear(y) == 365 * (y - 1) + (y - 1) \div 4 - (y - 1) \div 100 + (y - 1) \div 400

DaysBeforeMonth(y, mo) ==
    <<0, 31, 59, 90, 120, 151, 181, 212, 243, 273, 304, 334>>[mo]
    + (IF mo > 2 /\ IsLeap(y) THEN 1 ELSE 0)

\* datetime.strptime(text, '%Y-%m-%d %H:%M:%S'), the day it falls on
ToOrdinal(date) == DaysBeforeYear(date.y) + DaysBeforeMonth(date.y, date.mo) + date.d

\* datetime.weekday(): Monday is 0
Weekday(ordinal) == (ordinal + 6) % 7

\* the years of the model's dates, with the year before and the year after
ModelYears == 2023..2026

\* datetime.year
YearOf(ordinal) ==
    CHOOSE y \in ModelYears : DaysBeforeYear(y) < ordinal /\ ordinal <= DaysBeforeYear(y + 1)

\* msg_date - timedelta(days=msg_date.weekday()), at midnight
WeekStart(date) == ToOrdinal(date) - Weekday(ToOrdinal(date))

\* str(current_year): four decimal digits
YearText(y) ==
    <<48 + (y \div 1000), 48 + ((y \div 100) % 10), 48 + ((y \div 10) % 10), 48 + (y % 10)>>

\* the order of the date texts (the key of reactions_timeline.sort)
DateKey(date) == ((date.y * 13 + date.mo) * 32 + date.d) * 24 + date.h

\* the entries of mood_categories for the emoji of the model: U+1F602 and
\* U+1F923 joy, U+1F44D approval, U+1F622 sadness, U+2764 with or without
\* U+FE0F love; 'unknown' is the default of the lookups
MoodCategory(emoji) ==
    IF emoji \in {<<128514>>, <<129315>>} THEN "joy"
    ELSE IF emoji = <<128077>> THEN "approval"
    ELSE IF emoji = <<128546>> THEN "sadness"
    ELSE IF emoji \in {<<10084>>, <<10084, 65039>>} THEN "love"
    ELSE "unknown"

\* _get_mood_emoji: mood_emojis.get(mood, U+1F4DD)
_get_mood_emoji(mood) ==
    IF mood = "joy" THEN <<128514>>
    ELSE IF mood = "approval" THEN <<128077>>
    ELSE IF mood = "sadness" THEN <<128546>>
    ELSE IF mood = "love" THEN <<10084, 65039>>
    ELSE <<128221>>

\* the character class of emoji_pattern
InEmojiPattern(c) ==
    \/ c >= 128512 /\ c <= 128591
    \/ c >= 127744 /\ c <= 128511
    \/ c >= 128640 /\ c <= 128767
    \/ c >= 127462 /\ c <= 127487
    \/ c >= 9986 /\ c <= 10160
    \/ c >= 9410 /\ c <= 127569

\* str.split(sep) for a one-character separator
SplitOn(s, sep) ==
    Only({[k \in 1..(Len(at) + 1) |->
              SubSeq(v, IF k = 1 THEN 1 ELSE at[k - 1] + 1,
                        IF k = Len(at) + 1 THEN Len(v) ELSE at[k] - 1)] :
          at \in {SelectSeq(Indices(s), LAMBDA k : s[k] = sep)}, v \in {s}})

HasChar(s, c) == \E k \in 1..Len(s) : s[k] = c

\* item.split(':', 1)[1]
AfterFirstColon(item) ==
    SubSeq(item, Least({k \in 1..Len(item) : item[k] = 58}) + 1, Len(item))

\* one entry of reactions_timeline, or nothing when the emoji has no mood
MoodEntry(date, emoji, source) ==
    IF MoodCategory(emoji) = "unknown" THEN <<>>
    ELSE <<[date |-> date, mood |-> MoodCategory(emoji), source |-> source]>>

\* the entries of a list of emoji, in order
RECURSIVE MoodEntries(_, _, _)
MoodEntries(date, emojis, source) ==
    IF emojis = <<>> THEN <<>>
    ELSE MoodEntry(date, emojis[1], source) \o MoodEntries(date, Tail(emojis), source)

\* lines 138-190: the emoji named by a reaction text, '[' is 91, ']' is
\* 93, ':' is 58, ';' is 59
ReactionEmojis(reaction_text) ==
    IF reaction_text[1] = 91 /\ reaction_text[Len(reaction_text)] = 93
    THEN Only({IF HasChar(reaction_content, 58)
               THEN Only({[k \in 1..Len(items) |-> AfterFirstColon(items[k])] :
                          items \in {SelectSeq(SplitOn(reaction_content, 59),
                                               LAMBDA item : HasChar(item, 58))}})
               ELSE <<reaction_content>> :
               reaction_content \in {Slice(reaction_text, 1, Len(reaction_text) - 1)}})
    ELSE <<Strip(reaction_text)>>

\* lines 193-208: the characters of the content that the pattern matches
\* and mood_categories holds
ContentEmojis(content) ==
    Only({[k \in 1..Len(found) |-> <<found[k]>>] :
          found \in {SelectSeq(content, LAMBDA c :
                         InEmojiPattern(c) /\ MoodCategory(<<c>>) # "unknown")}})

\* the body of the loop of lines 136-208 for one message
MessageMoodEntries(msg) ==
    (IF msg.reaction_emoji # <<>>
     THEN MoodEntries(msg.date, ReactionEmojis(msg.reaction_emoji), "reaction")
     ELSE <<>>)
    \o (IF msg.content # <<>>
        THEN MoodEntries(msg.date, ContentEmojis(msg.content), "content")
        ELSE <<>>)

RECURSIVE CollectMoodEntries(_)
CollectMoodEntries(msgs) ==
    IF msgs = <<>> THEN <<>>
    ELSE MessageMoodEntries(msgs[1]) \o CollectMoodEntries(Tail(msgs))

\* list.sort(key=lambda x: x['date']): stable
SortByDate(entries) ==
    Only({[p \in 1..Len(v) |->
              v[CHOOSE i \in 1..Len(v) :
                    p = 1 + Cardinality({j \in 1..Len(v) :
                                \/ DateKey(v[j].date) < DateKey(v[i].date)
                                \/ DateKey(v[j].date) = DateKey(v[i].date) /\ j < i})]] :
          v \in {entries}})

\* weekly_moods[week_key][mood] after the loop of lines 267-282 (0 when the
\* key is absent)
MoodCount(reactions_timeline, week, mood) ==
    Cardinality({k \in 1..Len(reactions_timeline) :
        WeekStart(reactions_timeline[k].date) = week /\ reactions_timeline[k].mood = mood})

\* the last of the moods with the highest count
DominantMoodLast(reactions_timeline, week) ==
    Only({v[Greatest({k \in 1..Len(v) : \A j \in 1..Len(v) :
                      MoodCount(v, week, v[j].mood) <= MoodCount(v, week, v[k].mood)})].mood :
          v \in {SelectSeq(reactions_timeline, LAMBDA r : WeekStart(r.date) = week)}})

\* max(weekly_moods[week_key].items(), key=lambda x: x[1])[0]: the moods of
\* the week in insertion order are the moods in order of first occurrence
DominantMood(reactions_timeline, week) ==
    Only({v[Least({k \in 1..Len(v) : \A j \in 1..Len(v) :
                      MoodCount(v, week, v[j].mood) <= MoodCount(v, week, v[k].mood)})].mood :
          v \in {SelectSeq(reactions_timeline, LAMBDA r : WeekStart(r.date) = week)}})

\* lines 301-311: the character of the week; U+FF3F for messages without
\* mood, U+3000 for no activity
WeekChar(msgs, reactions_timeline, week) ==
    IF \E k \in 1..Len(reactions_timeline) : WeekStart(reactions_timeline[k].date) = week
    THEN _get_mood_emoji(DominantMood(reactions_timeline, week))
    ELSE IF \E k \in 1..Len(msgs) : WeekStart(msgs[k].date) = week
    THEN <<65343>>
    ELSE <<12288>>

\* f"{start_marker}: {timeline_str}"
YearLine(current_year, year_chars) == YearText(current_year) \o <<58, 32>> \o year_chars

\* a range that starts on the day of the first message
StartDay(msgs) == ToOrdinal(msgs[1].date)

\* start_monday and end_sunday; the latter is the last instant of its day
StartMonday(msgs) == WeekStart(msgs[1].date)
EndSunday(msgs) ==
    ToOrdinal(msgs[Len(msgs)].date) + (6 - Weekday(ToOrdinal(msgs[Len(msgs)].date)))

\* the while loop of lines 290-313 from current_week on, and lines 316-319
\* after it; current_year 0 is None, year_chars is kept joined
RECURSIVE TimelineLoop(_, _, _, _, _, _)
TimelineLoop(msgs, reactions_timeline, current_week, current_year, year_chars, timeline_lines) ==
    IF current_week > EndSunday(msgs)
    THEN IF year_chars # <<>> /\ current_year # 0
         THEN Append(timeline_lines, YearLine(current_year, year_chars))
         ELSE timeline_lines
    ELSE Only({TimelineLoop(msgs, reactions_timeline, current_week + 7, YearOf(current_week),
                            kept \o WeekChar(msgs, reactions_timeline, current_week), lines) :
               kept \in {IF current_year # 0 /\ YearOf(current_week) # current_year
                         THEN <<>> ELSE year_chars},
               lines \in {IF /\ current_year # 0 /\ YearOf(current_week) # current_year
                             /\ year_chars # <<>>
                          THEN Append(timeline_lines, YearLine(current_year, year_chars))
                          ELSE timeline_lines}})

_create_weekly_timeline(msgs, reactions_timeline) ==
    IF msgs = <<>> THEN <<>>
    ELSE TimelineLoop(msgs, reactions_timeline, StartMonday(msgs), 0, <<>>, <<>>)

\* analyze_mood_timeline: <<>> is None
analyze_mood_timeline(msgs) ==
    IF msgs = <<>> THEN <<>>
    ELSE Only({IF reactions_timeline = <<>> THEN <<>>
               ELSE [weekly_timeline |-> _create_weekly_timeline(msgs, reactions_timeline),
                     total_reactions |-> Len(reactions_timeline),
                     total_from_reactions |->
                         Len(SelectSeq(reactions_timeline, LAMBDA r : r.source = "reaction")),
                     total_from_content |->
                         Len(SelectSeq(reactions_timeline, LAMBDA r : r.source = "content")),
                     start_date |-> reactions_timeline[1].date,
                     end_date |-> reactions_timeline[Len(reactions_timeline)].date] :
               reactions_timeline \in {SortByDate(CollectMoodEntries(msgs))}})

\* a run that leaves the caller's list reversed
MessagesReversedByAnalysis(msgs) == [k \in 1..Len(msgs) |-> msgs[Len(msgs) + 1 - k]]

\* the caller's list after a run: the method reads it and never writes it
MessagesAfterAnalysis(msgs) == msgs

(***************************************************************************)
(* SpecMood: analyze_mood_timeline run several times on one list of        *)
(* messages in chronological order, the empty list included                *)
(***************************************************************************)
MaxMoodMessages == 2
MaxRuns == 2

Date(y, mo, d, h) == [y |-> y, mo |-> mo, d |-> d, h |-> h]

\* Wednesday 18 December 2024; Sunday 29, Monday 30 and Tuesday 31 December
\* 2024; Sunday 5 January and Monday 20 January 2025
MoodDates ==
    {Date(2024, 12, 18, 9), Date(2024, 12, 29, 23), Date(2024, 12, 30, 0),
     Date(2024, 12, 31, 12), Date(2025, 1, 5, 23), Date(2025, 1, 20, 8)}

\* content and reaction of a message: plain; a reaction; a reaction with a
\* skin tone (no mood); a group reaction of two sad and a joyful member;
\* an inline emoji and a reaction of another mood; two inline emoji, the
\* second outside the pattern; an inline emoji outside the pattern alone
MoodKinds ==
    {<<HelloText, <<>> >>,
     <<<<129315>>, <<>> >>,
     <<HelloText, <<128077>> >>,
     <<HelloText, <<128077, 127997>> >>,
     <<HelloText, <<91>> \o S("JD:") \o <<128514>> \o S(";AB:") \o <<128546>>
                  \o S(";C:") \o <<128546, 93>> >>,
     <<S("ok ") \o <<128514>>, <<10084>> >>,
     <<<<10084, 65039, 32, 129315>>, <<>> >>}

MoodMessage(date, kind) ==
    [date |-> date, content |-> kind[1], reaction_emoji |-> kind[2]]

MoodMessages == {MoodMessage(date, kind) : date \in MoodDates, kind \in MoodKinds}

InitMood ==
    /\ \E n \in 0..MaxMoodMessages :
          /\ moodMessages \in [1..n -> MoodMessages]
          /\ \A k \in 1..(n - 1) :
                 DateKey(moodMessages[k].date) <= DateKey(moodMessages[k + 1].date)
    /\ moodArg = moodMessages
    /\ moodRuns = <<>>
    /\ ScanIdle
    /\ AsmIdle
    /\ IniIdle
    /\ GrpIdle
    /\ FmtIdle
    /\ DbIdle

\* one call analyzer.analyze_mood_timeline(messages)
AnalyzeMoodTimeline ==
    /\ Len(moodRuns) < MaxRuns
    /\ moodRuns' = Append(moodRuns, analyze_mood_timeline(moodMessages))
    /\ moodMessages' = MessagesAfterAnalysis(moodMessages)
    /\ UNCHANGED <<moodArg, nonMoodVars>>

NextMood == AnalyzeMoodTimeline

SpecMood == InitMood /\ [][NextMood]_vars

C15_InWeek(date, week) == ToOrdinal(date) >= week /\ ToOrdinal(date) <= week + 6

\* the Mondays from the week of the first message to the week of the last
C15_Weeks(msgs) ==
    LET first == CHOOSE w \in (ToOrdinal(msgs[1].date) - 6)..ToOrdinal(msgs[1].date) :
                     Weekday(w) = 0
        last == CHOOSE w \in (ToOrdinal(msgs[Len(msgs)].date) - 6)..ToOrdinal(msgs[Len(msgs)].date) :
                     Weekday(w) = 0
    IN [k \in 1..((last - first) \div 7 + 1) |-> first + 7 * (k - 1)]

\* the character the claim gives a week
C15_Char(msgs, week) ==
    LET classified == SelectSeq(CollectMoodEntries(msgs), LAMBDA r : C15_InWeek(r.date, week))
        count(mood) == Cardinality({k \in 1..Len(classified) : classified[k].mood = mood})
        firstAt(mood) == Least({k \in 1..Len(classified) : classified[k].mood = mood})
        moods == {classified[k].mood : k \in 1..Len(classified)}
    IN IF classified # <<>>
       THEN _get_mood_emoji(CHOOSE mood \in moods : \A other \in moods :
                \/ count(other) < count(mood)
                \/ count(other) = count(mood) /\ firstAt(mood) <= firstAt(other))
       ELSE IF \E k \in 1..Len(msgs) : C15_InWeek(msgs[k].date, week)
       THEN <<65343>>
       ELSE <<12288>>

RECURSIVE C15_Chars(_, _, _, _)
C15_Chars(msgs, weeks, k, year) ==
    IF k > Len(weeks) THEN <<>>
    ELSE (IF YearOf(weeks[k]) = year THEN C15_Char(msgs, weeks[k]) ELSE <<>>)
         \o C15_Chars(msgs, weeks, k + 1, year)

\* one line per calendar year that holds a Monday of the range, in order
C15_Expected(msgs) ==
    LET weeks == C15_Weeks(msgs)
        years == SelectSeq([k \in 1..(1 + 2026 - 2023) |-> 2022 + k],
                           LAMBDA y : \E k \in 1..Len(weeks) : YearOf(weeks[k]) = y)
    IN [n \in 1..Len(years) |->
           YearText(years[n]) \o <<58, 32>> \o C15_Chars(msgs, weeks, 1, years[n])]

\* C15: the weekly timeline holds one character for each Monday-anchored
\* week from the week of the first message to the week of the last one,
\* in chronological order, one line per calendar year; the character is the
\* emoji of the week's dominant mood when a reaction or inline emoji was
\* classified that week, else the placeholder U+FF3F when a message falls
\* in the week, else the placeholder U+3000
C15_OneCharacterPerWeek ==
    \A i \in 1..Len(moodRuns) :
        moodRuns[i] # <<>> => moodRuns[i].weekly_timeline = C15_Expected(moodArg)

\* a timeline over two years with a mood week, a week of messages without
\* mood and a week without messages
C15_Witness ==
    /\ Len(moodRuns) >= 1
    /\ moodRuns[1] # <<>>
    /\ Len(moodRuns[1].weekly_timeline) = 2
    /\ \E n \in 1..2 : HasChar(moodRuns[1].weekly_timeline[n], 65343)
    /\ \E n \in 1..2 : HasChar(moodRuns[1].weekly_timeline[n], 12288)
    /\ Weekday(ToOrdinal(moodArg[1].date)) # 0

(***************************************************************************)
(* ConversationFormatter (formatter.py): the lines _format_messages and    *)
(* the statistics append to the output.  A line is kept as the kind of the *)
(* f-string that builds it, the message it renders and its variable text   *)
(* (a reaction is part of the line it is appended to).                     *)
(***************************************************************************)
Line(kind, message_id, text) == [kind |-> kind, message_id |-> message_id, text |-> text]

\* one line per element of text.split('\n')
SplitLines(kind, message_id, text) ==
    Only({[k \in 1..Len(lines) |-> Line(kind, message_id, lines[k])] :
          lines \in {SplitOn(text, 10)}})

\* f"(forward) {content}" for a forwarded message
ForwardPrefixed(msg) ==
    IF msg.is_forwarded THEN S("(forward) ") \o msg.content ELSE msg.content

\* _format_media_message for a message whose media_info is set
_format_media_message(msg) ==
    IF msg.message_type = 5 THEN <<Line("location", msg.message_id, <<>>)>>
    ELSE IF msg.message_type = 14 THEN <<Line("deleted", msg.message_id, <<>>)>>
    ELSE IF msg.message_type = 59 THEN <<Line("call", msg.message_id, <<>>)>>
    ELSE <<Line("media", msg.message_id, msg.media_info.title)>>
         \o (IF Strip(ForwardPrefixed(msg)) # <<>>
             THEN SplitLines("comment", msg.message_id, ForwardPrefixed(msg))
             ELSE <<>>)

\* _format_regular_message
_format_regular_message(msg) ==
    IF msg.message_type = 59 THEN <<Line("call", msg.message_id, <<>>)>>
    ELSE IF msg.media_info.present THEN _format_media_message(msg)
    ELSE IF Strip(msg.content) # <<>>
    THEN SplitLines("text", msg.message_id, ForwardPrefixed(msg))
    ELSE <<Line("empty", msg.message_id, S("[Empty message - Type "))>>

\* _format_quoted_message: the citation, the media, the reply
_format_quoted_message(msg) ==
    (IF msg.quoted_text.kind = "forward"
     THEN <<Line("citation", msg.message_id, msg.quoted_text.text)>>
     ELSE SplitLines("citation", msg.message_id, msg.quoted_text.text))
    \o (IF msg.media_info.present
        THEN <<Line(IF msg.message_type = 59 THEN "call" ELSE "media",
                    msg.message_id, msg.media_info.title)>>
        ELSE <<>>)
    \o (IF Strip(msg.content) # <<>>
        THEN SplitLines("reply", msg.message_id, msg.content)
        ELSE <<>>)

\* message_date.split(' ')[0]: the day of a date
DatePart(date) == date \div 86400

\* the loop of _format_messages from message k on; current_date -1 is None
RECURSIVE _format_messages(_, _, _)
_format_messages(msgs, k, current_date) ==
    IF k > Len(msgs) THEN <<>>
    ELSE IF msgs[k].date = 0 THEN _format_messages(msgs, k + 1, current_date)
    ELSE (IF current_date # DatePart(msgs[k].date)
          THEN <<Line("date", 0, <<DatePart(msgs[k].date)>>)>>
          ELSE <<>>)
         \o (IF Truthy(msgs[k].quoted_text)
             THEN _format_quoted_message(msgs[k])
             ELSE _format_regular_message(msgs[k]))
         \o _format_messages(msgs, k + 1, DatePart(msgs[k].date))

\* format_conversation, lines 152-165: the messages, then the statistics
\* with len(messages)
FormatConversation ==
    /\ pc = "done"
    /\ fmtPc = "idle"
    /\ output' = _format_messages(returned, 1, -1)
                 \o <<Line("total", 0, <<Len(returned)>>)>>
    /\ fmtPc' = "done"
    /\ UNCHANGED nonFmtVars

(***************************************************************************)
(* SpecFormat: conversations assembled and then formatted; the rows have a *)
(* date or none, a text, blanks or nothing, a parent or none, a media item *)
(* or none                                                                 *)
(***************************************************************************)
MaxFormatRows == 2

FormatTexts == {<<>>, S("  "), HelloText, S("a") \o <<10>> \o S("b")}

FormatRows ==
    {MessageRow(date, text, FALSE, type, parent, IntFlags(0), 0, <<>>) :
        date \in {0, 1000}, text \in FormatTexts, type \in {0, 59}, parent \in {0, 1}}
    \cup {MessageRow(1000, text, FALSE, 1, 0, IntFlags(flags), 1, <<>>) :
            text \in {<<>>, HelloText}, flags \in {0, 384}}
    \cup {MessageRow(90000, HelloText, TRUE, 0, 0, IntFlags(0), 0, <<>>),
          MessageRow(1000, HelloText, FALSE, 0, 0, TextFlags, 0, <<>>)}

InitFormat ==
    \E n \in 1..MaxFormatRows : \E t \in [1..n -> FormatRows] : AsmCall(t, 0, FALSE)

NextFormat ==
    \/ Next
    \/ FormatConversation

SpecFormat == InitFormat /\ [][NextFormat]_vars

\* the messages that have a line of their own in the output
C16_Rendered ==
    {k \in 1..Len(returned) :
        \E n \in 1..Len(output) : output[n].message_id = returned[k].message_id}

\* C16: no message of the assembled list is silently omitted from the
\* formatted export: every message has at least one output line, a message
\* with neither text nor media has the '[Empty message ...]' placeholder
\* line, and the number of messages rendered is the 'Total messages' count
C16_NoMessageOmitted ==
    fmtPc = "done" =>
        /\ \A k \in 1..Len(returned) : k \in C16_Rendered
        /\ \A k \in 1..Len(returned) :
               (Strip(returned[k].content) = <<>> /\ ~returned[k].media_info.present) =>
                   \E n \in 1..Len(output) :
                       /\ output[n].message_id = returned[k].message_id
                       /\ output[n].kind = "empty"
        /\ output[Len(output)].text = <<Cardinality(C16_Rendered)>>

(***************************************************************************)
(* Locating the database: DatabaseManager (database.py) behind the         *)
(* package's WhatsAppExporter, and the constructor of the single-file      *)
(* exporter (whatsapp_conversation_exporter_enhance.py).  A location is a  *)
(* name: the two local paths, two files of the backup directory whose      *)
(* names are 40 hex digits (hashA is 7c7fba66...cf01d, 10 bytes; hashB has *)
(* 20 bytes), the three ChatStorage.sqlite paths under the backup          *)
(* directory, and the file 7c7fba66...cf01d of the working directory.      *)
(***************************************************************************)
Locations == {"local1", "local2", "hashA", "hashB", "chat1", "chat2", "chat3", "cwd_hash"}

\* self.connection = None (line 17): handle is the connection held (0 for
\* None; a connection is named by its rank among those opened), opened
\* counts the calls of sqlite3.connect, live holds the connections opened
\* and not closed, last is the connection the last call worked on, uses
\* counts the calls that asked for the connection, ops the calls made
NotConnected ==
    [handle |-> 0, opened |-> 0, live |-> {}, last |-> 0, uses |-> 0, ops |-> 0]

NewExporter ==
    [pc |-> "new", db_path |-> "", error |-> "none",
     connection |-> FALSE, queries |-> 0, searches |-> 0] @@ NotConnected

Constructed(db_path) ==
    [pc |-> "constructed", db_path |-> db_path, error |-> "none",
     connection |-> FALSE, queries |-> 0, searches |-> 1] @@ NotConnected

Raised(error) ==
    [pc |-> "raised", db_path |-> "", error |-> error,
     connection |-> FALSE, queries |-> 0, searches |-> 1] @@ NotConnected

\* the first path of the list that exists, "" when none does
FirstExisting(paths, files) ==
    IF \E k \in 1..Len(paths) : paths[k] \in files
    THEN paths[Least({k \in 1..Len(paths) : paths[k] \in files})]
    ELSE ""

\* DatabaseManager._find_local_database
_find_local_database(files) ==
    IF FirstExisting(<<"local1", "local2">>, files) # ""
    THEN Constructed(FirstExisting(<<"local1", "local2">>, files))
    ELSE Raised("FileNotFoundError")

\* DatabaseManager._find_backup_database: the largest 40-hex-digit file of
\* the directory, else the first ChatStorage.sqlite path that exists
_find_backup_database(backup_base_path, files) ==
    IF backup_base_path = "" THEN Raised("ValueError")
    ELSE IF "hashB" \in files THEN Constructed("hashB")
    ELSE IF "hashA" \in files THEN Constructed("hashA")
    ELSE IF FirstExisting(<<"chat1", "chat2", "chat3">>, files) # ""
    THEN Constructed(FirstExisting(<<"chat1", "chat2", "chat3">>, files))
    ELSE Raised("FileNotFoundError")

\* DatabaseManager.__init__ without db_path
DatabaseManagerInit(env) ==
    IF env.backup_mode THEN _find_backup_database(env.backup_base_path, env.files)
    ELSE _find_local_database(env.files)

\* the single-file exporter's __init__ without db_path: _find_backup_database
\* returns its path whether it exists or not, _find_database falls back to
\* the standard path
LegacyInit(env) ==
    IF env.backup_mode THEN Constructed("hashA")
    ELSE IF "local1" \in env.files THEN Constructed("local1")
    ELSE IF "cwd_hash" \in env.files THEN Constructed("cwd_hash")
    ELSE Constructed("local1")

MaxQueries == 2

Environments ==
    [legacy : BOOLEAN, backup_mode : BOOLEAN, backup_base_path : {"", "backup"},
     files : SUBSET Locations]

InitDatabase ==
    /\ dbEnv \in Environments
    /\ dbMgr = NewExporter
    /\ ScanIdle
    /\ AsmIdle
    /\ IniIdle
    /\ GrpIdle
    /\ MoodIdle
    /\ FmtIdle

\* WhatsAppExporter(backup_mode=..., backup_base_path=...) of the package
ConstructExporter ==
    /\ dbMgr.pc = "new"
    /\ ~dbEnv.legacy
    /\ dbMgr' = DatabaseManagerInit(dbEnv)
    /\ UNCHANGED <<dbEnv, nonDbVars>>

\* WhatsAppExporter(backup_mode=..., backup_base_path=...) of the
\* single-file exporter
ConstructLegacyExporter ==
    /\ dbMgr.pc = "new"
    /\ dbEnv.legacy
    /\ dbMgr' = LegacyInit(dbEnv)
    /\ UNCHANGED <<dbEnv, nonDbVars>>

\* a get_connection that connects again whatever the manager holds
GetConnectionAlwaysConnects(mgr) ==
    [mgr EXCEPT !.handle = mgr.opened + 1, !.opened = @ + 1,
                !.live = @ \cup {mgr.opened + 1}, !.connection = TRUE,
                !.last = mgr.opened + 1, !.uses = @ + 1]

\* DatabaseManager.get_connection: connects when self.connection is None
\* (the path was found by the constructor, sqlite3.connect succeeds)
get_connection(mgr) ==
    IF mgr.handle = 0
    THEN [mgr EXCEPT !.handle = mgr.opened + 1, !.opened = @ + 1,
                     !.live = @ \cup {mgr.opened + 1}, !.connection = TRUE,
                     !.last = mgr.opened + 1, !.uses = @ + 1]
    ELSE [mgr EXCEPT !.last = mgr.handle, !.uses = @ + 1]

\* DatabaseManager.close_connection
close_connection(mgr) ==
    IF mgr.handle # 0
    THEN [mgr EXCEPT !.live = @ \ {mgr.handle}, !.handle = 0, !.connection = FALSE]
    ELSE mgr

\* DatabaseManager.execute_query; fetch_all and fetch_one call it and read
\* the cursor
execute_query(mgr) == [get_connection(mgr) EXCEPT !.queries = @ + 1]

MaxDbOps == 4

\* db_manager.get_connection()
GetConnection ==
    /\ dbMgr.pc = "constructed" /\ ~dbEnv.legacy
    /\ dbMgr.ops < MaxDbOps
    /\ dbMgr' = [get_connection(dbMgr) EXCEPT !.ops = @ + 1]
    /\ UNCHANGED <<dbEnv, nonDbVars>>

\* db_manager.execute_query, fetch_one or fetch_all
RunQuery ==
    /\ dbMgr.pc = "constructed" /\ ~dbEnv.legacy
    /\ dbMgr.ops < MaxDbOps
    /\ dbMgr.queries < MaxQueries
    /\ dbMgr' = [execute_query(dbMgr) EXCEPT !.ops = @ + 1]
    /\ UNCHANGED <<dbEnv, nonDbVars>>

\* db_manager.close_connection()
CloseConnection ==
    /\ dbMgr.pc = "constructed" /\ ~dbEnv.legacy
    /\ dbMgr.ops < MaxDbOps
    /\ dbMgr' = [close_connection(dbMgr) EXCEPT !.ops = @ + 1]
    /\ UNCHANGED <<dbEnv, nonDbVars>>

\* a query of the single-file exporter: with sqlite3.connect(self.db_path)
\* as conn (sqlite3.connect creates a missing file; leaving the with block
\* commits, it does not close)
LegacyQuery ==
    /\ dbMgr.pc = "constructed" /\ dbEnv.legacy
    /\ dbMgr.queries < MaxQueries
    /\ dbMgr' = [dbMgr EXCEPT !.opened = @ + 1, !.live = @ \cup {dbMgr.opened + 1},
                              !.connection = TRUE, !.last = dbMgr.opened + 1,
                              !.uses = @ + 1, !.queries = @ + 1, !.ops = @ + 1]
    /\ UNCHANGED <<dbEnv, nonDbVars>>

NextDatabase ==
    \/ ConstructExporter
    \/ ConstructLegacyExporter
    \/ GetConnection
    \/ RunQuery
    \/ CloseConnection
    \/ LegacyQuery

SpecDatabase == InitDatabase /\ [][NextDatabase]_vars

\* the locations an exporter looks at
C17_Candidates(env) ==
    IF env.legacy
    THEN IF env.backup_mode THEN {"hashA"} ELSE {"local1", "cwd_hash"}
    ELSE IF env.backup_mode THEN {"hashA", "hashB", "chat1", "chat2", "chat3"}
    ELSE {"local1", "local2"}

\* C17: when the database file is missing at every candidate location and
\* no explicit path is given, constructing the exporter fails with
\* FileNotFoundError before any connection is opened or any query is run,
\* after one search, in local mode and in backup mode
C17_MissingDatabaseRaises ==
    (dbMgr # <<>> /\ dbMgr.pc # "new" /\ C17_Candidates(dbEnv) \cap dbEnv.files = {}) =>
        /\ dbMgr.pc = "raised"
        /\ dbMgr.error = "FileNotFoundError"
        /\ ~dbMgr.connection
        /\ dbMgr.queries = 0
        /\ dbMgr.searches = 1

(***************************************************************************)
(* SpecFragments: conversations of originals of two contents, one and two  *)
(* minutes before the replies, and of replies whose media item holds two   *)
(* fragments, one fragment, or a plain quote before the fragments, one of  *)
(* them with a parent link                                                 *)
(***************************************************************************)
MaxFragmentRows == 4

\* media items 4, 7, 8: two fragments, one fragment, a quote and fragments
FragmentMedia == {4, 7, 8}

\* the replies are a second apart, so that only originals share a date
FragmentRows ==
    {MessageRow(ReplyDate - 120, LongText, FALSE, 0, 0, IntFlags(0), 0, <<>>),
     MessageRow(ReplyDate - 60, LongText, FALSE, 0, 0, IntFlags(0), 0, <<>>),
     MessageRow(ReplyDate - 60, OtherText, FALSE, 0, 0, IntFlags(0), 0, <<>>)}
    \cup {MessageRow(ReplyDate + media, HelloText, TRUE, 0, 0, IntFlags(0), media, <<>>) :
        media \in FragmentMedia}
    \cup {MessageRow(ReplyDate + 1, HelloText, TRUE, 0, 1, IntFlags(0), 4, <<>>)}
    \cup {MessageRow(ReplyDate + 2, HelloText, FALSE, 0, 0, TextFlags, 0, <<>>)}

\* tables of distinct rows, in any Z_PK order
InitFragments ==
    \E n \in 1..MaxFragmentRows : \E t \in [1..n -> FragmentRows] :
        /\ \A i, j \in 1..n : i # j => t[i] # t[j]
        /\ AsmCall(t, 0, FALSE)

SpecFragments == InitFragments /\ [][Next]_vars

\* what the fragment loop extracts from the metadata of a message
C18_Scan(m) == FragmentScan(MetaMap(m.media_item_id), 0, <<>>, <<>>)

\* C18: the second pass selects an original for a message only if at least
\* two fragments were extracted from its metadata or a tag-1 quoted content
\* was found; a message with fewer than two fragments and no tag-1 content
\* that had no quote after the first pass and has no parent link keeps
\* quoted_text unset
C18_TwoFragmentsOrQuotedContent ==
    \A k \in 1..Len(selected) :
        (Len(C18_Scan(messages[k]).parts) < 2 /\ C18_Scan(messages[k]).quoted_content = <<>>)
        => /\ selected[k] = 0
           /\ (/\ messages[k].parent_message_id = 0
               /\ ~Truthy(_process_message_row(db, messages[k].message_id).quoted_text))
              => ~Truthy(messages[k].quoted_text)

\* the message at position k was matched by the fragment tier
C19_ByFragments(k) ==
    /\ selected[k] # 0
    /\ ~(C18_Scan(messages[k]).quoted_content # <<>> /\ Len(C18_Scan(messages[k]).parts) < 2)

\* C19: the original selected by the fragment tier is a qualifying
\* candidate, no qualifying candidate is closer in time to the reply, and
\* every other qualifying candidate of the same delta is visited after it
C19_SmallestDeltaFirstFound ==
    \A k \in 1..Len(selected) :
        C19_ByFragments(k) =>
            LET cands == FragmentCandidates(messages, C18_Scan(messages[k]).parts, messages[k])
                c == selected[k]
            IN /\ c \in cands
               /\ \A d \in cands \ {c} :
                      \/ messages[c].date > messages[d].date
                      \/ /\ messages[c].date = messages[d].date
                         /\ VisitedBefore(messages, c, d)

\* a reply matched to an original of the same delta as another candidate
\* that stands before it in the list but under a key inserted later
C19_Witness ==
    /\ pc = "done"
    /\ \E k \in 1..Len(selected) :
           /\ C19_ByFragments(k)
           /\ returned[k].quoted_text = TextQuote(TruncateOriginal(LongText))
           /\ \E d \in FragmentCandidates(messages, C18_Scan(messages[k]).parts, messages[k]) :
                  /\ d < selected[k]
                  /\ messages[d].date = messages[selected[k]].date
                  /\ messages[d].content = OtherText

\* C20: a quoted_text that is set (non-empty) is never changed by a later
\* step: the parent-link pass and the second pass only write quoted_text
\* on messages whose quoted_text is unset, and the list returned carries
\* the quotes unchanged
C20_FirstSuccessWins ==
    [][/\ \A k \in 1..Len(messages) :
              Truthy(messages[k].quoted_text) =>
                  /\ k <= Len(messages')
                  /\ messages'[k].quoted_text = messages[k].quoted_text
       /\ pc = "return" => returned' = messages]_vars

\* after the second pass: a message whose own metadata gave its quote and a
\* message quoted through its parent link keep those quotes, although the
\* fragments of their media items match an original the second pass would
\* select
C20_Witness ==
    /\ pc = "return"
    /\ \E k, j \in 1..Len(messages) :
           /\ messages[k].media_item_id = 8
           /\ messages[k].parent_message_id = 0
           /\ messages[k].quoted_text = TextQuote(S("hello there friend"))
           /\ BestMatch(messages, C18_Scan(messages[k]).parts, messages[k]) # 0
           /\ messages[j].media_item_id = 4
           /\ messages[j].parent_message_id = 1
           /\ messages[j].quoted_text = TextQuote(ParentQuote(LongText))
           /\ BestMatch(messages, C18_Scan(messages[j]).parts, messages[j]) # 0

(***************************************************************************)
(* SpecFlags: conversations of messages whose ZFLAGS is NULL or has        *)
(* neither, one or both of the bits 0x080 and 0x100, and whose text does   *)
(* or does not hold one of the words _check_forwarded_message looks for    *)
(***************************************************************************)
MaxFlagRows == 2

ForwardedText == S("Forwarded: see you")
ArrowText == <<8618>> \o S(" see you")

FlagValues == {NullFlags, IntFlags(0), IntFlags(128), IntFlags(256), IntFlags(384),
               IntFlags(383), IntFlags(511)}

FlagRows ==
    {MessageRow(1000, text, FALSE, 0, 0, flags, 0, <<>>) :
        text \in {HelloText, ForwardedText, ArrowText}, flags \in FlagValues}
    \cup {MessageRow(1000, HelloText, FALSE, 0, 0, TextFlags, 0, <<>>)}

InitFlags ==
    \E n \in 1..MaxFlagRows : \E t \in [1..n -> FlagRows] : AsmCall(t, 0, FALSE)

SpecFlags == InitFlags /\ [][Next]_vars

\* both bits of the mask 0x180 are set in the row's ZFLAGS, NULL counting
\* as 0
C21_BothBits(row) ==
    /\ row.ZFLAGS.kind = "int"
    /\ (row.ZFLAGS.val % 512) \div 128 = 3

\* C21: the forwarded flag of every message is true exactly when both
\* bits of the mask 0x180 are set in its row's flags (NULL flags are 0),
\* whatever the text of the message
C21_ForwardedFromFlagsAlone ==
    \A k \in 1..Len(messages) :
        messages[k].is_forwarded <=> C21_BothBits(db[messages[k].message_id])

(***************************************************************************)
(* C22                                                                     *)
(***************************************************************************)
\* the byte b opens a length-delimited record the loop looks at
C22_Header(loop, b) ==
    IF loop = "tag1" THEN b = 10
    ELSE IF loop = "fallback" THEN b % 8 = 2 /\ b \div 8 <= 4 /\ b \div 8 # 1
    ELSE b % 8 = 2

\* the record at position i declares a length that reaches past the end of
\* the blob: a one-byte length, or a varint in the tag-1 scan
C22_OutOfRange(loop, blob, i) ==
    /\ i + 1 < Len(blob)
    /\ C22_Header(loop, At(blob, i))
    /\ IF At(blob, i + 1) < 128 \/ loop = "fragments"
       THEN i + 2 + At(blob, i + 1) > Len(blob)
       ELSE /\ loop = "tag1"
            /\ _decode_varint(blob, i + 1).pos + _decode_varint(blob, i + 1).value > Len(blob)

\* C22: in the tag-1 scan, the fallback scan and the fragment scan, an
\* iteration that meets a record whose declared length does not fit in the
\* remaining bytes of the blob takes no text from it and advances the
\* position by exactly one byte, staying in the loop
C22_OutOfRangeSkipsOneByte ==
    [][(/\ scanPc = "loop"
        /\ scanLoop \in {"tag1", "fallback", "fragments"}
        /\ LoopContinues
        /\ C22_OutOfRange(scanLoop, scanBlob, scanPos))
       => /\ scanPos' = scanPos + 1
          /\ scanAcc' = scanAcc
          /\ scanPc' = "loop"]_vars

(***************************************************************************)
(* SpecMedia: conversations of text messages, images and calls with no     *)
(* media item, with the image file (item 1), with an item that has no      *)
(* path, no size and no title (item 9, the item of message 3) or with an   *)
(* item whose title is blank (item 10)                                     *)
(***************************************************************************)
MaxMediaRows == 3

MediaItems == {0, 1, 9, 10}

MediaTestRows ==
    {MessageRow(1000, HelloText, FALSE, type, 0, IntFlags(0), media, <<>>) :
        type \in {0, 1, 59}, media \in MediaItems}
    \cup {MessageRow(1000, HelloText, FALSE, 0, 0, TextFlags, 0, <<>>)}

\* rows one minute apart, in Z_PK order
InitMedia ==
    \E n \in 1..MaxMediaRows : \E t \in [1..n -> MediaTestRows] :
        AsmCall([k \in 1..n |-> [t[k] EXCEPT !.ZMESSAGEDATE = 1000 + 60 * k]], 0, FALSE)

SpecMedia == InitMedia /\ [][Next]_vars

\* a path, a positive size or a non-blank title is present in the item
C23_HasContent(mi) ==
    \/ mi.ZMEDIALOCALPATH # <<>>
    \/ mi.ZFILESIZE > 0
    \/ \E k \in 1..Len(mi.ZTITLE) : mi.ZTITLE[k] # 32

\* the media items of a message: the one its row points at and those that
\* point at the message
C23_Items(pk) ==
    {k \in DOMAIN ZWAMEDIAITEM : db[pk].ZMEDIAITEM = k \/ ZWAMEDIAITEM[k].ZMESSAGE = pk}

\* C23: a message has a media descriptor only when its type is one of the
\* media-bearing types and one of its media items has a local path, a
\* positive file size or a non-blank title
C23_MediaInfoOnlyWithContent ==
    \A k \in 1..Len(messages) :
        messages[k].media_info.present =>
            /\ messages[k].message_type \in {1, 2, 3, 5, 9, 13, 14}
            /\ \E i \in C23_Items(messages[k].message_id) : C23_HasContent(ZWAMEDIAITEM[i])

(***************************************************************************)
(* C24                                                                     *)
(***************************************************************************)
\* the characters of a result's lines after the 'YYYY: ' of each, without
\* the variation selector U+FE0F: one code point per week
RECURSIVE C24_WeekCodes(_, _)
C24_WeekCodes(lines, n) ==
    IF n > Len(lines) THEN <<>>
    ELSE SelectSeq(SubSeq(lines[n], 7, Len(lines[n])), LAMBDA c : c # 65039)
         \o C24_WeekCodes(lines, n + 1)

\* the classified occurrences of a week, in the order of the sorted list
C24_Occurrences(msgs, week) ==
    SelectSeq(SortByDate(CollectMoodEntries(msgs)), LAMBDA r : C15_InWeek(r.date, week))

C24_Count(occ, mood) == Cardinality({k \in 1..Len(occ) : occ[k].mood = mood})

\* the categories with the highest count among the occurrences
C24_Top(occ) ==
    {occ[k].mood : k \in {k \in 1..Len(occ) :
        \A j \in 1..Len(occ) : C24_Count(occ, occ[j].mood) <= C24_Count(occ, occ[k].mood)}}

\* the category of the set whose earliest occurrence comes first
C24_FirstOf(occ, moods) ==
    occ[Least({k \in 1..Len(occ) : occ[k].mood \in moods})].mood

\* C24: in a week where several mood categories are tied for the highest
\* count, the week's character is the emoji of the tied category whose
\* earliest occurrence in that week comes first in the date-sorted list
C24_TieFirstEncountered ==
    \A i \in 1..Len(moodRuns) :
        moodRuns[i] # <<>> =>
            \A w \in 1..Len(C15_Weeks(moodArg)) :
                LET occ == C24_Occurrences(moodArg, C15_Weeks(moodArg)[w]) IN
                Cardinality(C24_Top(occ)) >= 2 =>
                    C24_WeekCodes(moodRuns[i].weekly_timeline, 1)[w]
                        = _get_mood_emoji(C24_FirstOf(occ, C24_Top(occ)))[1]

\* a run over a week in which two categories are tied and the one
\* encountered first is not the one encountered last
C24_Witness ==
    /\ Len(moodRuns) >= 1
    /\ moodRuns[1] # <<>>
    /\ \E w \in 1..Len(C15_Weeks(moodArg)) :
           LET occ == C24_Occurrences(moodArg, C15_Weeks(moodArg)[w]) IN
           /\ Cardinality(C24_Top(occ)) >= 2
           /\ occ[Len(occ)].mood \in C24_Top(occ)
           /\ occ[Len(occ)].mood # occ[1].mood
           /\ C24_WeekCodes(moodRuns[1].weekly_timeline, 1)[w] = _get_mood_emoji(occ[1].mood)[1]

(***************************************************************************)
(* C25                                                                     *)
(***************************************************************************)
\* C25: on one DatabaseManager, at most one connection is open at any time
\* and none is opened before the first call that asks for it; a call that
\* finds a connection works on it and opens nothing; a call that finds none
\* opens exactly one; close_connection closes the connection held and does
\* nothing on a closed manager
C25_SingleLazyConnection ==
    /\ [](dbEnv # <<>> /\ ~dbEnv.legacy =>
            /\ Cardinality(dbMgr.live) <= 1
            /\ dbMgr.live = (IF dbMgr.handle = 0 THEN {} ELSE {dbMgr.handle})
            /\ (dbMgr.uses = 0 => dbMgr.opened = 0))
    /\ [][dbEnv # <<>> /\ ~dbEnv.legacy /\ dbMgr.pc = "constructed" =>
            /\ (dbMgr'.uses > dbMgr.uses /\ dbMgr.handle # 0 =>
                    /\ dbMgr'.last = dbMgr.handle
                    /\ dbMgr'.handle = dbMgr.handle
                    /\ dbMgr'.opened = dbMgr.opened)
            /\ (dbMgr'.uses > dbMgr.uses /\ dbMgr.handle = 0 =>
                    /\ dbMgr'.opened = dbMgr.opened + 1
                    /\ dbMgr'.handle \notin {0, dbMgr.last}
                    /\ dbMgr'.last = dbMgr'.handle)
            /\ (dbMgr'.uses = dbMgr.uses =>
                    /\ dbMgr'.handle = 0
                    /\ dbMgr'.opened = dbMgr.opened
                    /\ (dbMgr.handle = 0 => dbMgr'.live = dbMgr.live))]_vars

\* two queries on the same connection, a close, and a query that opened
\* the second connection
C25_Witness ==
    /\ dbMgr # <<>> /\ ~dbEnv.legacy
    /\ dbMgr.ops = 4
    /\ dbMgr.queries = 2
    /\ dbMgr.uses = 3
    /\ dbMgr.opened = 2
    /\ dbMgr.live = {2}

(***************************************************************************)
(* C26                                                                     *)
(***************************************************************************)
\* the position _decode_varint started from
C26_Start == scanPos - scanSteps

\* C26: _decode_varint consumes the bytes from its start position on, one
\* per iteration; when it returns it has consumed at most 10 bytes, none
\* past the end of the blob, every consumed byte but the last has its high
\* bit set, the last one has it clear unless it is the tenth byte or the
\* last byte of the blob, the groups accumulated are the low 7 bits of the
\* consumed bytes, least significant first, and the position returned is
\* the start position plus the number of bytes consumed
C26_VarintDecoding ==
    /\ [][scanLoop = "varint" => scanPos' - scanSteps' = scanPos - scanSteps]_vars
    /\ [](scanLoop = "varint" /\ scanPc = "returned" =>
            /\ C26_Start \in {0, 1}
            /\ Len(scanAcc.groups) = scanSteps
            /\ scanSteps <= 10
            /\ scanPos <= Max(Len(scanBlob), C26_Start)
            /\ \A k \in 1..scanSteps :
                   /\ scanAcc.groups[k] = scanBlob[C26_Start + k] % 128
                   /\ (k < scanSteps => scanBlob[C26_Start + k] >= 128)
            /\ (scanSteps = 0 => C26_Start >= Len(scanBlob))
            /\ (scanSteps > 0 /\ scanBlob[scanPos] >= 128 =>
                    scanSteps = 10 \/ scanPos = Len(scanBlob))
            /\ _decode_varint(scanBlob, C26_Start).pos = scanPos
            /\ _decode_varint(scanBlob, C26_Start).groups = scanAcc.groups)

\* a varint of ten bytes with the high bit set, in a blob that goes on
C26_Witness ==
    /\ scanLoop = "varint"
    /\ scanPc = "returned"
    /\ scanSteps = 10
    /\ scanPos < Len(scanBlob)
    /\ scanBlob[scanPos] >= 128

(***************************************************************************)
(* C27                                                                     *)
(***************************************************************************)
\* the UTF-8 bytes of a code point
C27_Utf8(cp) ==
    IF cp < 128 THEN <<cp>>
    ELSE IF cp < 2048 THEN <<192 + (cp \div 64), 128 + (cp % 64)>>
    ELSE IF cp < 65536
    THEN <<224 + (cp \div 4096), 128 + ((cp \div 64) % 64), 128 + (cp % 64)>>
    ELSE <<240 + (cp \div 262144), 128 + ((cp \div 4096) % 64),
           128 + ((cp \div 64) % 64), 128 + (cp % 64)>>

RECURSIVE C27_Encode(_)
C27_Encode(text) ==
    IF text = <<>> THEN <<>> ELSE C27_Utf8(Head(text)) \o C27_Encode(Tail(text))

\* C27: the UTF-8 bytes of the reaction returned for a receipt blob, base
\* and modifier together, are a run of consecutive bytes of the blob
C27_EmojiBytesInBlob ==
    \A k \in 1..Len(messages) :
        messages[k].reaction_emoji # <<>> =>
            Contains(db[messages[k].message_id].ZRECEIPTINFO,
                     C27_Encode(messages[k].reaction_emoji))

(***************************************************************************)
(* C28                                                                     *)
(***************************************************************************)
\* 'F09F' occurs in the hex of the receipt and none of the F09F candidates
\* decodes
C28_NoF09FDecodes(receipt) ==
    /\ Contains(Hex(receipt), PrefixF09F)
    /\ \A k \in 1..Len(C11_MatchStarts(Hex(receipt), 0)) :
           ~DecodeStrict(FromHex(Slice(Hex(receipt),
                                       C11_MatchStarts(Hex(receipt), 0)[k],
                                       C11_MatchStarts(Hex(receipt), 0)[k] + 8))).ok

\* C28: a receipt whose hex holds 'F09F' and no F09F candidate that decodes
\* gives no reaction, whatever E2 symbol it holds; a reaction of the E2
\* family (a code point below U+10000) is only returned for a receipt whose
\* hex holds no 'F09F'
C28_LegacyOnlyWithoutF09F ==
    \A k \in 1..Len(messages) :
        LET receipt == db[messages[k].message_id].ZRECEIPTINFO IN
        /\ C28_NoF09FDecodes(receipt) => messages[k].reaction_emoji = <<>>
        /\ (messages[k].reaction_emoji # <<>> /\ messages[k].reaction_emoji[1] < 65536)
               => ~Contains(Hex(receipt), PrefixF09F)

\* a receipt with F0 9F 41 41, which does not decode, and U+2764, which
\* does: the message has no reaction
C28_Witness ==
    \E k \in 1..Len(messages) :
        /\ db[messages[k].message_id].ZRECEIPTINFO = <<240, 159, 65, 65, 226, 157, 164>>
        /\ _extract_reaction_emoji(<<226, 157, 164>>) = <<10084>>
        /\ messages[k].reaction_emoji = <<>>

(***************************************************************************)
(* SpecTwoCalls: the conversation A, which holds a long message of the     *)
(* contact, is exported, then the conversation B with the same exporter;   *)
(* B holds replies whose fragments match the long message of A             *)
(***************************************************************************)
MaxSecondRows == 2

BonjourText == S("Bonjour")

\* the conversation A: the long message, alone or followed by one row
FirstTables ==
    {<<MessageRow(ReplyDate - 120, LongText, FALSE, 0, 0, IntFlags(0), 0, <<>>)>> \o tail :
        tail \in {<<>>,
                  <<MessageRow(ReplyDate - 60, HelloText, TRUE, 0, 0, IntFlags(0), 0, <<>>)>>,
                  <<MessageRow(ReplyDate - 60, HelloText, FALSE, 0, 0, TextFlags, 0, <<>>)>>}}

\* the rows of B: another long message of the contact, a reply with the
\* fragments, the same with a parent link, a plain message
SecondRows ==
    {MessageRow(ReplyDate - 60, OtherText, FALSE, 0, 0, IntFlags(0), 0, <<>>),
     MessageRow(ReplyDate, BonjourText, TRUE, 0, 0, IntFlags(0), 4, <<>>),
     MessageRow(ReplyDate, BonjourText, TRUE, 0, 1, IntFlags(0), 4, <<>>),
     MessageRow(ReplyDate, BonjourText, FALSE, 0, 0, IntFlags(0), 0, <<>>)}

SecondTables == UNION {[1..n -> SecondRows] : n \in 1..MaxSecondRows}

InitTwoCalls == \E t \in FirstTables : AsmCall(t, 0, FALSE)

\* the next call of _get_conversation_messages on the same exporter, for
\* the conversation B: self.messages is what the call for A left
ExportSecond ==
    /\ pc = "done"
    /\ db \in FirstTables
    /\ db' \in SecondTables
    /\ pc' = "fetch"
    /\ rows' = <<>> /\ nextRow' = 1
    /\ returned' = <<>> /\ raisedRow' = 0 /\ selected' = <<>>
    /\ UNCHANGED <<limit, recent, messages, nonAsmVars>>

NextTwoCalls ==
    \/ Next
    \/ ExportSecond

SpecTwoCalls == InitTwoCalls /\ [][NextTwoCalls]_vars

\* the texts of the messages of A
C29_FirstTexts == {LongText, HelloText}

\* C29: a call starts from an empty list; during and after the call for B
\* every message of the list is built from a row of B, the list returned
\* for B has one message per row of B, and no message of B is given a
\* message of A as its original or a quote taken from a message of A
C29_SecondCallSeesOnlyItsRows ==
    /\ [][pc = "fetch" => messages' = <<>>]_vars
    /\ [](pc # "fetch" /\ db \in SecondTables =>
            /\ \A k \in 1..Len(messages) :
                   /\ messages[k].content \notin C29_FirstTexts
                   /\ messages[k].content = db[messages[k].message_id].ZTEXT
                   /\ messages[k].quoted_text.text
                          \notin {TruncateOriginal(LongText), ParentQuote(LongText), HelloText}
            /\ \A k \in 1..Len(selected) :
                   selected[k] # 0 => messages[selected[k]].content = OtherText
            /\ (pc = "done" =>
                    /\ Len(returned) = Len(db)
                    /\ \A k \in 1..Len(returned) : returned[k].content \notin C29_FirstTexts))

\* the call for B has returned a reply whose fragments match the long
\* message of A and nothing of B: it has no quote
C29_Witness ==
    /\ pc = "done"
    /\ db \in SecondTables
    /\ \E k \in 1..Len(returned) :
           /\ returned[k].media_item_id = 4
           /\ returned[k].parent_message_id = 0
           /\ MatchFound(OriginalKey([content |-> LongText]), C18_Scan(returned[k]).parts)
           /\ \A j \in 1..Len(returned) : returned[j].content # OtherText
           /\ returned[k].quoted_text = NoQuote
           /\ selected[k] = 0

\* whether a reaction or an inline emoji of the message has a mood category
C30_Maps(msg) ==
    \/ /\ msg.reaction_emoji # <<>>
       /\ \E k \in 1..Len(ReactionEmojis(msg.reaction_emoji)) :
              MoodCategory(ReactionEmojis(msg.reaction_emoji)[k]) # "unknown"
    \/ \E k \in 1..Len(msg.content) : MoodCategory(<<msg.content[k]>>) # "unknown"

\* C30: analyze_mood_timeline returns None whenever the message list is
\* empty or no reaction and no inline emoji of the list maps to a mood
\* category, even if the list contains messages; otherwise total_reactions
\* equals total_from_reactions plus total_from_content and is at least 1
C30_NoneUnlessSomethingMaps ==
    \A i \in 1..Len(moodRuns) :
        IF moodArg = <<>> \/ \A k \in 1..Len(moodArg) : ~C30_Maps(moodArg[k])
        THEN moodRuns[i] = <<>>
        ELSE /\ moodRuns[i] # <<>>
             /\ moodRuns[i].total_reactions
                    = moodRuns[i].total_from_reactions + moodRuns[i].total_from_content
             /\ moodRuns[i].total_reactions >= 1
====
